---- MODULE Spec2Model ----
(***************************************************************************)
(* Video gallery discovery pipeline of script.js:                          *)
(*   loadVideos -> discoverVideoEntries -> fetchManifest                    *)
(*              -> scrapeDirectoryListing -> normalizeEntry                 *)
(*              -> resolveVideoPath -> dedupeEntries -> sort -> render      *)
(*                                                                         *)
(* A JavaScript string is a sequence of characters; a character is a       *)
(* UTF-16 code unit: a one-character TLA+ string for the printable ASCII   *)
(* range, "<XX>" for the control characters and the grave accent (code     *)
(* 0x60), and "<XXXX>" (four hexadecimal digits) for a code unit of 0x80   *)
(* or more.  Case mapping and collation follow the Unicode character       *)
(* database and the root collation of CLDR on the repertoire named in the  *)
(* section on Unicode.                                                     *)
(*                                                                         *)
(* Spec is the page from the DOMContentLoaded event on: loadVideos, then   *)
(* the handlers of the cards it rendered.  PathSpec is resolveVideoPath    *)
(* applied to its own result.                                              *)
(***************************************************************************)
EXTENDS Integers, Sequences, FiniteSets, TLC

VARIABLES
  pc,               \* position of loadVideos / discoverVideoEntries
  manifestFetches,  \* number of fetch(manifestPath) calls issued
  dirFetches,       \* number of fetch(videosDirectory) calls issued
  payload,          \* value produced by response.json() in fetchManifest
  hrefs,            \* href attribute values of the anchors of the listing
  manifestResult,   \* how fetchManifest ended, as seen by discoverVideoEntries
  manifestError,    \* the error caught and logged at line 58-59
  dirResult,        \* how scrapeDirectoryListing ended
  discovered,       \* the value discoverVideoEntries returned
  thrown,           \* the error discoverVideoEntries threw to loadVideos
  rendered,         \* the list handed to renderEntries
  cards,            \* the cards of the video list element
  status,           \* the status banner
  copies,           \* clipboard writes of handleCopy not yet settled
  rpc,              \* position of the path-resolution harness
  rawPath,          \* argument of resolveVideoPath
  resolved1,        \* resolveVideoPath(rawPath)
  resolved2         \* resolveVideoPath(resolveVideoPath(rawPath))

vars == << pc, manifestFetches, dirFetches, payload, hrefs, manifestResult,
           manifestError, dirResult, discovered, thrown, rendered, cards,
           status, copies, rpc, rawPath, resolved1, resolved2 >>

pipelineVars == << pc, manifestFetches, dirFetches, payload, hrefs,
                   manifestResult, manifestError, dirResult, discovered,
                   thrown, rendered, cards, status, copies >>

\* What the discovery steps leave alone: the cards and the clipboard writes.
pageVars == << cards, copies >>

pathVars == << rpc, rawPath, resolved1, resolved2 >>

(***************************************************************************)
(* Bounds of the model.                                                    *)
(***************************************************************************)
MaxInputs == 3     \* records of the manifest and anchors of the directory
                   \* listing of one page load, together
MaxParts == 3      \* tokens concatenated into an argument of resolveVideoPath
MaxCopies == 1     \* clipboard writes pending at a time

(***************************************************************************)
(* Characters and strings.                                                 *)
(***************************************************************************)
AsciiTable ==
  << "<00>", "<01>", "<02>", "<03>", "<04>", "<05>", "<06>", "<07>",
     "<08>", "<09>", "<0A>", "<0B>", "<0C>", "<0D>", "<0E>", "<0F>",
     "<10>", "<11>", "<12>", "<13>", "<14>", "<15>", "<16>", "<17>",
     "<18>", "<19>", "<1A>", "<1B>", "<1C>", "<1D>", "<1E>", "<1F>",
     " ", "!", "\"", "#", "$", "%", "&", "'",
     "(", ")", "*", "+", ",", "-", ".", "/",
     "0", "1", "2", "3", "4", "5", "6", "7",
     "8", "9", ":", ";", "<", "=", ">", "?",
     "@", "A", "B", "C", "D", "E", "F", "G",
     "H", "I", "J", "K", "L", "M", "N", "O",
     "P", "Q", "R", "S", "T", "U", "V", "W",
     "X", "Y", "Z", "[", "\\", "]", "^", "_",
     "<60>", "a", "b", "c", "d", "e", "f", "g",
     "h", "i", "j", "k", "l", "m", "n", "o",
     "p", "q", "r", "s", "t", "u", "v", "w",
     "x", "y", "z", "{", "|", "}", "~", "<7F>" >>

AsciiChars == { AsciiTable[i] : i \in 1..Len(AsciiTable) }

HexDigits == << "0", "1", "2", "3", "4", "5", "6", "7",
                "8", "9", "A", "B", "C", "D", "E", "F" >>

\* Character of a code unit (String.fromCharCode), for 0..65535.
CharOf(k) ==
  IF k < Len(AsciiTable) THEN AsciiTable[k + 1]
  ELSE "<" \o HexDigits[(k \div 4096) + 1] \o HexDigits[((k \div 256) % 16) + 1]
           \o HexDigits[((k \div 16) % 16) + 1] \o HexDigits[(k % 16) + 1] \o ">"

\* Code unit of each ASCII character (charCodeAt).
CodeTable ==
  [c \in AsciiChars |-> (CHOOSE i \in 1..Len(AsciiTable) : AsciiTable[i] = c) - 1]

\* Code unit of each character from code unit lo to code unit hi.
RECURSIVE CodesBetween(_, _)
CodesBetween(lo, hi) ==
  IF lo = hi THEN CharOf(lo) :> lo
  ELSE CHOOSE codes \in { CodesBetween(lo, mid) @@ CodesBetween(mid + 1, hi) :
                            mid \in {(lo + hi) \div 2} } : TRUE

\* Code unit of each character beyond ASCII.
UnitCode == CodesBetween(128, 65535)

\* Code unit of a character (charCodeAt).
CodeOf(c) == IF c \in AsciiChars THEN CodeTable[c] ELSE UnitCode[c]

\* The characters 0-9, A-Z and a-z.
Digits == { AsciiTable[k + 1] : k \in 48..57 }

UpperLetters == { AsciiTable[k + 1] : k \in 65..90 }

LowerLetters == { AsciiTable[k + 1] : k \in 97..122 }

IsDigit(c) == c \in Digits

IsUpper(c) == c \in UpperLetters

IsLower(c) == c \in LowerLetters

IsAlnum(c) == IsDigit(c) \/ IsUpper(c) \/ IsLower(c)

\* Lower case of each ASCII character.
LowerTable ==
  [c \in AsciiChars |->
     IF c \in UpperLetters THEN AsciiTable[CodeTable[c] + 32 + 1] ELSE c]

\* Case folding of a regular expression with the i flag and without the u
\* flag: no character outside ASCII folds to an ASCII letter.
FoldChar(c) == IF c \in AsciiChars THEN LowerTable[c] ELSE c

FoldCase(s) == [i \in 1..Len(s) |-> FoldChar(s[i])]

\* White space and line terminators removed by String.prototype.trim.
SpaceChars ==
  {"<09>", "<0A>", "<0B>", "<0C>", "<0D>", " "}
  \cup { CharOf(k) : k \in {160, 5760, 8232, 8233, 8239, 8287, 12288, 65279} }
  \cup { CharOf(k) : k \in 8192..8202 }

IsSpace(c) == c \in SpaceChars

RECURSIVE TrimStart(_)
TrimStart(s) ==
  IF s # << >> /\ IsSpace(Head(s)) THEN TrimStart(Tail(s)) ELSE s

RECURSIVE TrimEnd(_)
TrimEnd(s) ==
  IF s # << >> /\ IsSpace(s[Len(s)]) THEN TrimEnd(SubSeq(s, 1, Len(s) - 1)) ELSE s

\* String.prototype.trim.
Trim(s) == TrimEnd(TrimStart(s))

\* String.prototype.startsWith.
StartsWith(s, p) == Len(s) >= Len(p) /\ SubSeq(s, 1, Len(p)) = p

\* String.prototype.endsWith.
EndsWith(s, p) == Len(s) >= Len(p) /\ SubSeq(s, Len(s) - Len(p) + 1, Len(s)) = p

\* Remove the first n characters.
Drop(s, n) == SubSeq(s, n + 1, Len(s))

\* String.prototype.split with a one-character separator: a non-empty
\* sequence of segments.
RECURSIVE Split(_, _)
Split(s, sep) ==
  IF \A i \in 1..Len(s) : s[i] # sep
  THEN << s >>
  ELSE LET k == CHOOSE i \in 1..Len(s) :
                  s[i] = sep /\ \A j \in 1..(i - 1) : s[j] # sep
       IN  << SubSeq(s, 1, k - 1) >> \o Split(Drop(s, k), sep)

\* Array.prototype.join with a one-character separator.
RECURSIVE Join(_, _)
Join(segs, sep) ==
  IF segs = << >> THEN << >>
  ELSE IF Len(segs) = 1 THEN segs[1]
  ELSE segs[1] \o << sep >> \o Join(Tail(segs), sep)

(***************************************************************************)
(* encodeURIComponent / decodeURIComponent.  Both give                     *)
(* [ok |-> TRUE, v |-> text] or, when they throw URIError,                 *)
(* [ok |-> FALSE, v |-> <<>>].                                             *)
(***************************************************************************)
Returned(text) == [ok |-> TRUE, v |-> text]

URIError == [ok |-> FALSE, v |-> << >>]

\* Value of each hexadecimal digit, in either case.
HexTable ==
  [c \in { HexDigits[i] : i \in 1..16 } \cup { "a", "b", "c", "d", "e", "f" } |->
     CHOOSE v \in 0..15 : HexDigits[v + 1] = c \/ (v >= 10 /\ FoldChar(HexDigits[v + 1]) = c)]

HexChars == DOMAIN HexTable

\* The octet two hexadecimal digits spell, -1 when one of them is none.
HexPair(high, low) ==
  IF high \in HexChars /\ low \in HexChars
  THEN (HexTable[high] * 16) + HexTable[low]
  ELSE -1

\* Characters encodeURIComponent leaves alone: A-Z a-z 0-9 - _ . ! ~ * ' ( )
Unreserved ==
  Digits \cup UpperLetters \cup LowerLetters \cup {"-", "_", ".", "!", "~", "*", "'", "(", ")"}

IsUnreserved(c) == c \in Unreserved

\* "%XX" for one octet.
EscapeOctet(b) == << "%", HexDigits[(b \div 16) + 1], HexDigits[(b % 16) + 1] >>

EncodeTable ==
  [c \in AsciiChars |-> IF c \in Unreserved THEN << c >> ELSE EscapeOctet(CodeTable[c])]

EncodeChar(c) == EncodeTable[c]

\* The UTF-8 octets of a code point.
Utf8Octets(cp) ==
  IF cp < 128 THEN << cp >>
  ELSE IF cp < 2048 THEN << 192 + (cp \div 64), 128 + (cp % 64) >>
  ELSE IF cp < 65536
  THEN << 224 + (cp \div 4096), 128 + ((cp \div 64) % 64), 128 + (cp % 64) >>
  ELSE << 240 + (cp \div 262144), 128 + ((cp \div 4096) % 64),
          128 + ((cp \div 64) % 64), 128 + (cp % 64) >>

\* The escapes of a sequence of octets.
RECURSIVE EscapeOctets(_)
EscapeOctets(octets) ==
  IF octets = << >> THEN << >>
  ELSE EscapeOctet(Head(octets)) \o EscapeOctets(Tail(octets))

\* The UTF-8 octets of a code point, escaped.
EscapePoint(cp) == EscapeOctets(Utf8Octets(cp))

IsHighSurrogate(k) == k >= 55296 /\ k <= 56319

IsLowSurrogate(k) == k >= 56320 /\ k <= 57343

\* The code point of a surrogate pair.
PairPoint(high, low) == ((high - 55296) * 1024) + (low - 56320) + 65536

\* The code point that starts with code unit first, next being the code
\* unit after it (-1 at the end of the string): [units, point], units = 0
\* for a surrogate that is not the high half of a pair.
PointOfUnits(first, next) ==
  IF IsLowSurrogate(first) THEN [units |-> 0, point |-> first]
  ELSE IF ~IsHighSurrogate(first) THEN [units |-> 1, point |-> first]
  ELSE IF IsLowSurrogate(next) THEN [units |-> 2, point |-> PairPoint(first, next)]
  ELSE [units |-> 0, point |-> first]

\* The code point at the start of a non-empty string.
LeadPoint(s) ==
  PointOfUnits(CodeOf(s[1]), IF Len(s) >= 2 THEN CodeOf(s[2]) ELSE -1)

\* encodeURIComponent on what is left of the string, acc the text so far:
\* a surrogate must be the high half of a pair, else URIError.
RECURSIVE EncodeFrom(_, _)
EncodeFrom(s, acc) ==
  IF s = << >> THEN Returned(acc)
  ELSE IF Head(s) \in AsciiChars THEN EncodeFrom(Tail(s), acc \o EncodeChar(Head(s)))
  ELSE IF LeadPoint(s).units = 0 THEN URIError
  ELSE EncodeFrom(Drop(s, LeadPoint(s).units), acc \o EscapePoint(LeadPoint(s).point))

\* encodeURIComponent.
EncodeURIComponent(s) == EncodeFrom(s, << >>)

\* The octet of the escape "%XX" at position i of s, -1 when there is none.
OctetAt(s, i) ==
  IF i + 2 <= Len(s) /\ s[i] = "%" THEN HexPair(s[i + 1], s[i + 2]) ELSE -1

\* The octets of the four escapes from position i of s, -1 where there is
\* no escape.
OctetsAt(s, i) == [j \in 1..4 |-> OctetAt(s, i + (3 * (j - 1)))]

\* Number of octets of the UTF-8 sequence a first octet starts, 0 when the
\* octet starts none.
SequenceLength(b) ==
  IF b < 128 THEN 1
  ELSE IF b >= 194 /\ b <= 223 THEN 2
  ELSE IF b >= 224 /\ b <= 239 THEN 3
  ELSE IF b >= 240 /\ b <= 244 THEN 4
  ELSE 0

\* The code point the first n of the octets o encode.
PointOf(o, n) ==
  IF n = 1 THEN o[1]
  ELSE IF n = 2 THEN ((o[1] - 192) * 64) + (o[2] - 128)
  ELSE IF n = 3
  THEN ((o[1] - 224) * 4096) + ((o[2] - 128) * 64) + (o[3] - 128)
  ELSE ((o[1] - 240) * 262144) + ((o[2] - 128) * 4096)
       + ((o[3] - 128) * 64) + (o[4] - 128)

\* Well-formed UTF-8 in n octets: shortest form, no surrogate, at most
\* U+10FFFF.
ValidPoint(cp, n) ==
  IF n = 1 THEN TRUE
  ELSE IF n = 2 THEN cp >= 128
  ELSE IF n = 3 THEN cp >= 2048 /\ ~(cp >= 55296 /\ cp <= 57343)
  ELSE cp >= 65536 /\ cp <= 1114111

\* The first n of the octets o are a well-formed UTF-8 sequence: a first
\* octet, then continuation octets 0x80..0xBF, encoding a valid code point.
WellFormed(o, n) ==
  /\ o[1] >= 0
  /\ n > 0
  /\ \A j \in 2..n : o[j] >= 128 /\ o[j] <= 191
  /\ ValidPoint(PointOf(o, n), n)

\* The code units of a code point.
UnitsOf(cp) ==
  IF cp < 65536 THEN << CharOf(cp) >>
  ELSE << CharOf(55296 + ((cp - 65536) \div 1024)), CharOf(56320 + ((cp - 65536) % 1024)) >>

\* The escapes at the start of the octets o, decoded: [ok, n, units] with n
\* the number of escapes and units the code units they stand for; ok is
\* FALSE where decodeURIComponent throws URIError.
DecodedEscapes(o, n) ==
  IF WellFormed(o, n)
  THEN [ok |-> TRUE, n |-> n, units |-> UnitsOf(PointOf(o, n))]
  ELSE [ok |-> FALSE, n |-> 0, units |-> << >>]

\* The escapes at position i of s, decoded.
EscapesAt(s, i) == DecodedEscapes(OctetsAt(s, i), SequenceLength(OctetAt(s, i)))

\* decodeURIComponent from position i of s, acc the text so far.
RECURSIVE DecodeFrom(_, _, _)
DecodeFrom(s, i, acc) ==
  IF i > Len(s) THEN Returned(acc)
  ELSE IF s[i] # "%" THEN DecodeFrom(s, i + 1, Append(acc, s[i]))
  ELSE IF ~EscapesAt(s, i).ok THEN URIError
  ELSE DecodeFrom(s, i + (3 * EscapesAt(s, i).n), acc \o EscapesAt(s, i).units)

\* decodeURIComponent.
DecodeURIComponent(s) == DecodeFrom(s, 1, << >>)

(***************************************************************************)
(* JavaScript values found in a parsed manifest: [t, v] with t the type    *)
(* and v the text of a string, the decimal digits of a number, the text    *)
(* "true" or "false" of a boolean, or the text String() gives for an       *)
(* array: its elements joined by commas.  The code reads no element and no *)
(* length of an array, only its type, its truth and its string form.       *)
(***************************************************************************)
Undefined == [t |-> "undefined", v |-> << >>]

Null == [t |-> "null", v |-> << >>]

Str(s) == [t |-> "string", v |-> s]

Num(digits) == [t |-> "number", v |-> digits]

Bool(b) ==
  [t |-> "boolean",
   v |-> IF b THEN << "t", "r", "u", "e" >> ELSE << "f", "a", "l", "s", "e" >>]

\* An array of strings.
Arr(items) == [t |-> "array", v |-> Join(items, ",")]

\* x ?? y
Coalesce(x, y) == IF x.t \in {"undefined", "null"} THEN y ELSE x

\* ToBoolean(x): "", 0, false, null and undefined are falsy; an array is
\* truthy, the empty one too.
Truthy(x) ==
  CASE x.t = "string" -> x.v # << >>
    [] x.t = "number" -> x.v # << "0" >>
    [] x.t = "boolean" -> x.v = << "t", "r", "u", "e" >>
    [] x.t = "array" -> TRUE
    [] OTHER -> FALSE

\* String(x) of a string, a number, a boolean or an array.
StringOf(x) == x.v

\* A raw record of a manifest: a string, an object with the fields the code
\* reads, null or a number.
RawString(s) ==
  [t |-> "string", v |-> s, name |-> Undefined, file |-> Undefined,
   title |-> Undefined, url |-> Undefined, poster |-> Undefined,
   thumbnail |-> Undefined]

RawObject(name, file, title, url, poster, thumbnail) ==
  [t |-> "object", v |-> << >>, name |-> name, file |-> file, title |-> title,
   url |-> url, poster |-> poster, thumbnail |-> thumbnail]

RawNull ==
  [t |-> "null", v |-> << >>, name |-> Undefined, file |-> Undefined,
   title |-> Undefined, url |-> Undefined, poster |-> Undefined,
   thumbnail |-> Undefined]

RawNumber(digits) ==
  [t |-> "number", v |-> digits, name |-> Undefined, file |-> Undefined,
   title |-> Undefined, url |-> Undefined, poster |-> Undefined,
   thumbnail |-> Undefined]

(***************************************************************************)
(* Constants of script.js.                                                 *)
(***************************************************************************)
videosDirectory == << "v", "i", "d", "e", "o", "s", "/" >>

\* MP4_PATTERN = /\.mp4$/i
MP4_PATTERN(s) == EndsWith(FoldCase(s), << ".", "m", "p", "4" >>)

\* s contains t.
Contains(s, t) ==
  \E i \in 1..(Len(s) - Len(t) + 1) : SubSeq(s, i, i + Len(t) - 1) = t

\* NSFW_PATTERN = /nsfw/i
NSFW_PATTERN(s) == Contains(FoldCase(s), << "n", "s", "f", "w" >>)

(***************************************************************************)
(* resolveVideoPath and nameFromPath.                                      *)
(***************************************************************************)
\* /^https?:/i.test(rawPath)
IsHttpUrl(s) ==
  \/ StartsWith(FoldCase(s), << "h", "t", "t", "p", ":" >>)
  \/ StartsWith(FoldCase(s), << "h", "t", "t", "p", "s", ":" >>)

IsSeparator(c) == c \in {"\\", "/"}

\* Length of the run of separators at the start of s.
RECURSIVE SeparatorRun(_)
SeparatorRun(s) ==
  IF s # << >> /\ IsSeparator(Head(s)) THEN 1 + SeparatorRun(Tail(s)) ELSE 0

\* s.replace(/^\.?(?:\\|\/)+/, ""): an optional dot and the separators after it.
StripLeadingSeparators(s) ==
  IF s # << >> /\ Head(s) = "." /\ SeparatorRun(Tail(s)) > 0
  THEN Drop(s, 1 + SeparatorRun(Tail(s)))
  ELSE Drop(s, SeparatorRun(s))

\* Line 279: encodeURIComponent of what decodeURIComponent returned.
EncodeDecoded(decoded) ==
  IF decoded.ok THEN EncodeURIComponent(decoded.v) ELSE URIError

\* try { attempt } catch { fallback } of lines 278-282.
Caught(attempt, fallback) == IF attempt.ok THEN attempt ELSE fallback

\* Variant of EncodeSegment that escapes a segment without decoding it first.
EncodeSegmentNoDecode(segment) == EncodeURIComponent(segment)

\* The callback of lines 273-283 for a segment after the first: the escaped
\* segment, or the URIError encodeURIComponent throws on a lone surrogate.
EncodeSegment(segment) ==
  Caught(EncodeDecoded(DecodeURIComponent(segment)), EncodeURIComponent(segment))

\* Lines 273-283: the first segment as it is, the others escaped.
MapSegments(segments) ==
  [i \in 1..Len(segments) |->
     IF i = 1 THEN Returned(segments[i]) ELSE EncodeSegment(segments[i])]

\* The segments joined again, or the URIError one of them threw.
JoinSegments(results) ==
  IF \E i \in 1..Len(results) : ~results[i].ok
  THEN URIError
  ELSE Returned(Join([i \in 1..Len(results) |-> results[i].v], "/"))

\* Lines 271-284.
EncodeSegments(segments) == JoinSegments(MapSegments(segments))

\* [ok |-> TRUE, v |-> the resolved path], or URIError when it throws.
resolveVideoPath(path) ==
  IF IsHttpUrl(path) THEN Returned(path)
  ELSE LET sanitized == StripLeadingSeparators(Trim(path))
           relative == IF StartsWith(sanitized, videosDirectory)
                       THEN sanitized
                       ELSE videosDirectory \o sanitized
       IN  EncodeSegments(Split(relative, "/"))

nameFromPath(path) ==
  LET withoutQuery == Split(path, "?")[1]
      parts == Split(withoutQuery, "/")
  IN  parts[Len(parts)]

(***************************************************************************)
(* normalizeEntry and createEntryFromPath.  The result is                  *)
(*   [k |-> "entry", name, url, urlType, poster]   an entry,               *)
(*   [k |-> "null"]                                null,                   *)
(*   [k |-> "throw", err]                          an exception of kind    *)
(*                                                 err.                    *)
(* The url of an entry is a string, or the array resolveVideoPath handed   *)
(* back untouched: urlType tells which, and url is then the string form of *)
(* the array.                                                              *)
(***************************************************************************)
EntryOfType(name, url, urlType, poster) ==
  [k |-> "entry", name |-> name, url |-> url, urlType |-> urlType,
   poster |-> poster, err |-> "none"]

Entry(name, url, poster) == EntryOfType(name, url, "string", poster)

NoEntry ==
  [k |-> "null", name |-> << >>, url |-> << >>, urlType |-> "string",
   poster |-> Undefined, err |-> "none"]

Throw(err) ==
  [k |-> "throw", name |-> << >>, url |-> << >>, urlType |-> "string",
   poster |-> Undefined, err |-> err]

\* Lines 151-152 once decodeURIComponent settled: name is what it returned.
EntryFromUrl(url, name) ==
  IF ~name.ok THEN Throw("URIError")
  ELSE IF name.v # << >> THEN Entry(name.v, url, Undefined)
  ELSE NoEntry

\* Lines 150-152 once resolveVideoPath settled.
EntryFromResolved(resolved) ==
  IF ~resolved.ok THEN Throw("URIError")
  ELSE EntryFromUrl(resolved.v, DecodeURIComponent(nameFromPath(resolved.v)))

createEntryFromPath(path) == EntryFromResolved(resolveVideoPath(path))

\* What resolveVideoPath settles with in normalizeEntry.
Resolved(url, urlType) == [err |-> "none", url |-> url, urlType |-> urlType]

ResolveThrew(err) == [err |-> err, url |-> << >>, urlType |-> "string"]

\* The outcome of resolveVideoPath on a string, as a settlement.
Settled(got) == IF got.ok THEN Resolved(got.v, "string") ELSE ResolveThrew("URIError")

\* resolveVideoPath(rawUrl) at line 137, for a value of any type.  The test
\* of line 262 converts the value to a string; what passes it is returned
\* as it is, an array included; any other value that is not a string has no
\* trim method, and line 266 throws a TypeError.
ResolveValue(rawUrl) ==
  IF rawUrl.t = "string" THEN Settled(resolveVideoPath(rawUrl.v))
  ELSE IF IsHttpUrl(StringOf(rawUrl)) THEN Resolved(StringOf(rawUrl), rawUrl.t)
  ELSE ResolveThrew("TypeError")

\* Lines 139-143 once decodeURIComponent settled: name is what it returned.
NamedEntry(rawEntry, resolved, name) ==
  IF ~name.ok THEN Throw("URIError")
  ELSE EntryOfType(name.v, resolved.url, resolved.urlType,
                   Coalesce(rawEntry.poster, Coalesce(rawEntry.thumbnail, Null)))

\* Lines 137-143 once resolveVideoPath settled.  nameFromPath on a url that
\* is no string throws: path.split is not a function.
EntryFromObject(rawEntry, fileName, resolved) ==
  IF resolved.err # "none" THEN Throw(resolved.err)
  ELSE IF Truthy(fileName)
  THEN NamedEntry(rawEntry, resolved, DecodeURIComponent(StringOf(fileName)))
  ELSE IF resolved.urlType # "string" THEN Throw("TypeError")
  ELSE NamedEntry(rawEntry, resolved, DecodeURIComponent(nameFromPath(resolved.url)))

normalizeEntry(rawEntry) ==
  IF rawEntry.t = "string" THEN createEntryFromPath(rawEntry.v)
  ELSE IF rawEntry.t = "object"
  THEN LET fileName == Coalesce(rawEntry.name,
                         Coalesce(rawEntry.file, Coalesce(rawEntry.title, Str(<< >>))))
           rawUrl == Coalesce(rawEntry.url, fileName)
       IN  IF ~Truthy(rawUrl) THEN NoEntry
           ELSE EntryFromObject(rawEntry, fileName, ResolveValue(rawUrl))
  ELSE NoEntry

(***************************************************************************)
(* The href pipeline of scrapeDirectoryListing, lines 105-112, for one     *)
(* anchor.                                                                 *)
(***************************************************************************)
\* href.split("?")[0]
DropQuery(href) == Split(href, "?")[1]

\* href.replace(/^\.\/?/, ""): a leading dot and the slash after it, if any.
StripDotSlash(href) ==
  IF href # << >> /\ Head(href) = "."
  THEN IF Len(href) >= 2 /\ href[2] = "/" THEN Drop(href, 2) ELSE Drop(href, 1)
  ELSE href

\* Lines 107-108.
CleanHref(href) == StripDotSlash(DropQuery(href))

\* The two filters of lines 109-110.
IsCandidate(href) ==
  /\ href # << >>
  /\ ~StartsWith(href, << ".", ".", "/" >>)
  /\ MP4_PATTERN(href)

\* The object of line 111.
ListingRecord(href) ==
  RawObject(Str(nameFromPath(href)), Undefined, Undefined, Str(href),
            Undefined, Undefined)

\* An anchor the filters of lines 109-110 removed.
Filtered ==
  [k |-> "filtered", name |-> << >>, url |-> << >>, urlType |-> "string",
   poster |-> Undefined, err |-> "none"]

\* Lines 106-111 for one anchor: Filtered, or what normalizeEntry gives.
ScrapeHref(href) ==
  IF IsCandidate(CleanHref(href))
  THEN normalizeEntry(ListingRecord(CleanHref(href)))
  ELSE Filtered

(***************************************************************************)
(* Unicode.  String.prototype.toLowerCase (line 303) and                   *)
(* String.prototype.localeCompare (line 32) work on code points, by the    *)
(* Unicode character database and the root collation of CLDR, whose        *)
(* contents depend on the version the runtime ships.  They are modelled on *)
(* a repertoire of blocks whose characters, case mappings, decompositions  *)
(* and collation order are settled: Basic Latin to Combining Diacritical   *)
(* Marks (U+0000-036F), Greek and Coptic, Cyrillic, Latin Extended         *)
(* Additional (U+1E00-1EFF), General Punctuation and the full-width forms  *)
(* of ASCII (U+FF01-FF5E), with the data of Unicode 17 and CLDR 48: those   *)
(* of Unicode 15.0 and CLDR 42 but for U+0295, a letter without case, and  *)
(* the quotation marks U+2018-201B and U+201C-201F, which have the primary *)
(* weights of U+0027 and U+0022.  On text with a code point outside the    *)
(* repertoire, a surrogate outside a pair included, the two methods have   *)
(* no value here: Known is undefined.                                      *)
(* The data are tables of rows in ascending order of a first field, a code *)
(* point.                                                                  *)
(***************************************************************************)
\* Index of the last row between rows lo and hi whose first field is at
\* most k.
RECURSIVE RowFrom(_, _, _, _)
RowFrom(table, k, lo, hi) ==
  IF lo = hi THEN lo
  ELSE IF table[(lo + hi + 1) \div 2][1] <= k
  THEN RowFrom(table, k, (lo + hi + 1) \div 2, hi)
  ELSE RowFrom(table, k, lo, ((lo + hi + 1) \div 2) - 1)

\* The last row of a table whose first field is at most k; the first row of
\* every table is below every code point.
RowOf(table, k) == table[RowFrom(table, k, 1, Len(table))]

\* The code points of the repertoire: <<first, last>>.
RepertoireRanges ==
  << <<0,887>>, <<890,895>>, <<900,906>>, <<908,908>>, <<910,929>>,
     <<931,1279>>, <<7680,7935>>, <<8192,8292>>, <<8294,8303>>,
     <<65281,65374>> >>

InRepertoire(cp) == cp <= RowOf(RepertoireRanges, cp)[2]

\* A code point of the repertoire; no value for another code point.
Known(cp) == CHOOSE p \in {cp} : InRepertoire(p)

\* The least member of a non-empty set of numbers.
First(S) == CHOOSE i \in S : \A j \in S : i <= j

\* The concatenation of the sequences parts[lo], .., parts[hi].
RECURSIVE Concat(_, _, _)
Concat(parts, lo, hi) ==
  IF lo > hi THEN << >>
  ELSE IF lo = hi THEN parts[lo]
  ELSE Concat(parts, lo, (lo + hi) \div 2) \o Concat(parts, ((lo + hi) \div 2) + 1, hi)

\* The code point that starts at position i of the code units, none at the
\* low half of a surrogate pair; a surrogate outside a pair stands for
\* itself.
PointAt(units, i) ==
  IF i > 1 /\ IsHighSurrogate(units[i - 1]) /\ IsLowSurrogate(units[i]) THEN << >>
  ELSE IF i < Len(units) /\ IsHighSurrogate(units[i]) /\ IsLowSurrogate(units[i + 1])
  THEN << PairPoint(units[i], units[i + 1]) >>
  ELSE << units[i] >>

PointsOf(units) == Concat([i \in 1..Len(units) |-> PointAt(units, i)], 1, Len(units))

\* The code points of a string.
CodePoints(s) == PointsOf([i \in 1..Len(s) |-> CodeOf(s[i])])

\* The string of a sequence of code points.
UnitsOfPoints(points) ==
  Concat([i \in 1..Len(points) |-> UnitsOf(points[i])], 1, Len(points))

(***************************************************************************)
(* String.prototype.toLowerCase, line 303: the lower-case mapping of       *)
(* every code point, without locale.                                       *)
(***************************************************************************)
\* The simple lower-case mappings of the repertoire: <<first, last, delta,
\* stride>>, the code points first, first + stride, .. up to last map to
\* themselves plus delta.
LowerCaseRuns ==
  << <<0,0,0,1>>, <<65,90,32,1>>, <<192,214,32,1>>, <<216,222,32,1>>,
     <<256,302,1,2>>, <<304,304,-199,1>>, <<306,310,1,2>>, <<313,327,1,2>>,
     <<330,374,1,2>>, <<376,376,-121,1>>, <<377,381,1,2>>, <<385,385,210,1>>,
     <<386,388,1,2>>, <<390,390,206,1>>, <<391,391,1,1>>, <<393,394,205,1>>,
     <<395,395,1,1>>, <<398,398,79,1>>, <<399,399,202,1>>, <<400,400,203,1>>,
     <<401,401,1,1>>, <<403,403,205,1>>, <<404,404,207,1>>, <<406,406,211,1>>,
     <<407,407,209,1>>, <<408,408,1,1>>, <<412,412,211,1>>, <<413,413,213,1>>,
     <<415,415,214,1>>, <<416,420,1,2>>, <<422,422,218,1>>, <<423,423,1,1>>,
     <<425,425,218,1>>, <<428,428,1,1>>, <<430,430,218,1>>, <<431,431,1,1>>,
     <<433,434,217,1>>, <<435,437,1,2>>, <<439,439,219,1>>, <<440,440,1,1>>,
     <<444,444,1,1>>, <<452,452,2,1>>, <<453,453,1,1>>, <<455,455,2,1>>,
     <<456,456,1,1>>, <<458,458,2,1>>, <<459,475,1,2>>, <<478,494,1,2>>,
     <<497,497,2,1>>, <<498,500,1,2>>, <<502,502,-97,1>>, <<503,503,-56,1>>,
     <<504,542,1,2>>, <<544,544,-130,1>>, <<546,562,1,2>>,
     <<570,570,10795,1>>, <<571,571,1,1>>, <<573,573,-163,1>>,
     <<574,574,10792,1>>, <<577,577,1,1>>, <<579,579,-195,1>>,
     <<580,580,69,1>>, <<581,581,71,1>>, <<582,590,1,2>>, <<880,882,1,2>>,
     <<886,886,1,1>>, <<895,895,116,1>>, <<902,902,38,1>>, <<904,906,37,1>>,
     <<908,908,64,1>>, <<910,911,63,1>>, <<913,929,32,1>>, <<931,939,32,1>>,
     <<975,975,8,1>>, <<984,1006,1,2>>, <<1012,1012,-60,1>>,
     <<1015,1015,1,1>>, <<1017,1017,-7,1>>, <<1018,1018,1,1>>,
     <<1021,1023,-130,1>>, <<1024,1039,80,1>>, <<1040,1071,32,1>>,
     <<1120,1152,1,2>>, <<1162,1214,1,2>>, <<1216,1216,15,1>>,
     <<1217,1229,1,2>>, <<1232,1278,1,2>>, <<7680,7828,1,2>>,
     <<7838,7838,-7615,1>>, <<7840,7934,1,2>>, <<65313,65338,32,1>> >>

\* The code points of the repertoire with the property Cased:
\* <<first, last>>.
CasedRanges ==
  << <<0,-1>>, <<65,90>>, <<97,122>>, <<170,170>>, <<181,181>>, <<186,186>>,
     <<192,214>>, <<216,246>>, <<248,442>>, <<444,447>>, <<452,659>>,
     <<662,696>>, <<704,705>>, <<736,740>>, <<837,837>>, <<880,883>>,
     <<886,887>>, <<890,893>>, <<895,895>>, <<902,902>>, <<904,906>>,
     <<908,908>>, <<910,929>>, <<931,1013>>, <<1015,1153>>, <<1162,1279>>,
     <<7680,7935>>, <<65313,65338>>, <<65345,65370>> >>

\* The code points of the repertoire with the property Case_Ignorable:
\* <<first, last>>.
CaseIgnorableRanges ==
  << <<0,-1>>, <<39,39>>, <<46,46>>, <<58,58>>, <<94,94>>, <<96,96>>,
     <<168,168>>, <<173,173>>, <<175,175>>, <<180,180>>, <<183,184>>,
     <<688,879>>, <<884,885>>, <<890,890>>, <<900,901>>, <<903,903>>,
     <<1155,1161>>, <<8203,8207>>, <<8216,8217>>, <<8228,8228>>,
     <<8231,8231>>, <<8234,8238>>, <<8288,8292>>, <<8294,8303>>,
     <<65287,65287>>, <<65294,65294>>, <<65306,65306>>, <<65342,65342>>,
     <<65344,65344>> >>

\* The simple lower-case mapping of a code point.
LowerPoint(cp) ==
  LET row == RowOf(LowerCaseRuns, Known(cp))
  IN  IF cp <= row[2] /\ (cp - row[1]) % row[4] = 0 THEN cp + row[3] ELSE cp

IsCased(cp) == cp <= RowOf(CasedRanges, Known(cp))[2]

IsCaseIgnorable(cp) == cp <= RowOf(CaseIgnorableRanges, Known(cp))[2]

\* Going from position i by step, a cased letter comes after case-ignorable
\* code points only.
RECURSIVE CasedLetterFrom(_, _, _)
CasedLetterFrom(points, i, step) ==
  IF i < 1 \/ i > Len(points) THEN FALSE
  ELSE IF IsCaseIgnorable(points[i]) THEN CasedLetterFrom(points, i + step, step)
  ELSE IsCased(points[i])

\* The lower case of the code point at position i: U+03A3 capital sigma
\* becomes U+03C2 final sigma after a cased letter and not before one, else
\* U+03C3; U+0130 becomes i and U+0307; the others have a simple mapping.
LowerAt(points, i) ==
  IF points[i] = 931
  THEN IF CasedLetterFrom(points, i - 1, -1) /\ ~CasedLetterFrom(points, i + 1, 1)
       THEN << 962 >>
       ELSE << 963 >>
  ELSE IF points[i] = 304 THEN << 105, 775 >>
  ELSE << LowerPoint(points[i]) >>

LowerPoints(points) ==
  Concat([i \in 1..Len(points) |-> LowerAt(points, i)], 1, Len(points))

\* String.prototype.toLowerCase.  Text of ASCII characters, which have no
\* part in the mappings of sigma and U+0130, maps character by character.
ToLowerCase(s) ==
  IF \A i \in 1..Len(s) : s[i] \in AsciiChars
  THEN [i \in 1..Len(s) |-> LowerTable[s[i]]]
  ELSE UnitsOfPoints(LowerPoints(CodePoints(s)))

(***************************************************************************)
(* a.name.localeCompare(b.name, undefined, {numeric: true,                 *)
(* sensitivity: "base"}), line 32: the root collation at primary strength  *)
(* (letter case and accents are ignored), on the canonical decomposition   *)
(* of the names, a run of decimal digits counting as one number.           *)
(***************************************************************************)
\* The digits zero of the repertoire (general category Nd), ASCII and
\* full-width; the nine successors of each are its digits one to nine.  The
\* first row is below every code point.
DecimalZeros ==
  << <<-10>>, <<48>>, <<65296>> >>

\* Canonical combining classes other than zero: <<first, last, class>>.
CombiningClasses ==
  << <<0,-1,0>>, <<768,788,230>>, <<789,789,232>>, <<790,793,220>>,
     <<794,794,232>>, <<795,795,216>>, <<796,800,220>>, <<801,802,202>>,
     <<803,806,220>>, <<807,808,202>>, <<809,819,220>>, <<820,824,1>>,
     <<825,828,220>>, <<829,836,230>>, <<837,837,240>>, <<838,838,230>>,
     <<839,841,220>>, <<842,844,230>>, <<845,846,220>>, <<848,850,230>>,
     <<851,854,220>>, <<855,855,230>>, <<856,856,232>>, <<857,858,220>>,
     <<859,859,230>>, <<860,860,233>>, <<861,862,234>>, <<863,863,233>>,
     <<864,865,234>>, <<866,866,233>>, <<867,879,230>>, <<1155,1159,230>> >>

\* Full canonical decompositions: <<code point, its decomposition>>.
Decompositions ==
  << <<0,<<0>>>>, <<192,<<65,768>>>>, <<193,<<65,769>>>>, <<194,<<65,770>>>>,
     <<195,<<65,771>>>>, <<196,<<65,776>>>>, <<197,<<65,778>>>>,
     <<199,<<67,807>>>>, <<200,<<69,768>>>>, <<201,<<69,769>>>>,
     <<202,<<69,770>>>>, <<203,<<69,776>>>>, <<204,<<73,768>>>>,
     <<205,<<73,769>>>>, <<206,<<73,770>>>>, <<207,<<73,776>>>>,
     <<209,<<78,771>>>>, <<210,<<79,768>>>>, <<211,<<79,769>>>>,
     <<212,<<79,770>>>>, <<213,<<79,771>>>>, <<214,<<79,776>>>>,
     <<217,<<85,768>>>>, <<218,<<85,769>>>>, <<219,<<85,770>>>>,
     <<220,<<85,776>>>>, <<221,<<89,769>>>>, <<224,<<97,768>>>>,
     <<225,<<97,769>>>>, <<226,<<97,770>>>>, <<227,<<97,771>>>>,
     <<228,<<97,776>>>>, <<229,<<97,778>>>>, <<231,<<99,807>>>>,
     <<232,<<101,768>>>>, <<233,<<101,769>>>>, <<234,<<101,770>>>>,
     <<235,<<101,776>>>>, <<236,<<105,768>>>>, <<237,<<105,769>>>>,
     <<238,<<105,770>>>>, <<239,<<105,776>>>>, <<241,<<110,771>>>>,
     <<242,<<111,768>>>>, <<243,<<111,769>>>>, <<244,<<111,770>>>>,
     <<245,<<111,771>>>>, <<246,<<111,776>>>>, <<249,<<117,768>>>>,
     <<250,<<117,769>>>>, <<251,<<117,770>>>>, <<252,<<117,776>>>>,
     <<253,<<121,769>>>>, <<255,<<121,776>>>>, <<256,<<65,772>>>>,
     <<257,<<97,772>>>>, <<258,<<65,774>>>>, <<259,<<97,774>>>>,
     <<260,<<65,808>>>>, <<261,<<97,808>>>>, <<262,<<67,769>>>>,
     <<263,<<99,769>>>>, <<264,<<67,770>>>>, <<265,<<99,770>>>>,
     <<266,<<67,775>>>>, <<267,<<99,775>>>>, <<268,<<67,780>>>>,
     <<269,<<99,780>>>>, <<270,<<68,780>>>>, <<271,<<100,780>>>>,
     <<274,<<69,772>>>>, <<275,<<101,772>>>>, <<276,<<69,774>>>>,
     <<277,<<101,774>>>>, <<278,<<69,775>>>>, <<279,<<101,775>>>>,
     <<280,<<69,808>>>>, <<281,<<101,808>>>>, <<282,<<69,780>>>>,
     <<283,<<101,780>>>>, <<284,<<71,770>>>>, <<285,<<103,770>>>>,
     <<286,<<71,774>>>>, <<287,<<103,774>>>>, <<288,<<71,775>>>>,
     <<289,<<103,775>>>>, <<290,<<71,807>>>>, <<291,<<103,807>>>>,
     <<292,<<72,770>>>>, <<293,<<104,770>>>>, <<296,<<73,771>>>>,
     <<297,<<105,771>>>>, <<298,<<73,772>>>>, <<299,<<105,772>>>>,
     <<300,<<73,774>>>>, <<301,<<105,774>>>>, <<302,<<73,808>>>>,
     <<303,<<105,808>>>>, <<304,<<73,775>>>>, <<308,<<74,770>>>>,
     <<309,<<106,770>>>>, <<310,<<75,807>>>>, <<311,<<107,807>>>>,
     <<313,<<76,769>>>>, <<314,<<108,769>>>>, <<315,<<76,807>>>>,
     <<316,<<108,807>>>>, <<317,<<76,780>>>>, <<318,<<108,780>>>>,
     <<323,<<78,769>>>>, <<324,<<110,769>>>>, <<325,<<78,807>>>>,
     <<326,<<110,807>>>>, <<327,<<78,780>>>>, <<328,<<110,780>>>>,
     <<332,<<79,772>>>>, <<333,<<111,772>>>>, <<334,<<79,774>>>>,
     <<335,<<111,774>>>>, <<336,<<79,779>>>>, <<337,<<111,779>>>>,
     <<340,<<82,769>>>>, <<341,<<114,769>>>>, <<342,<<82,807>>>>,
     <<343,<<114,807>>>>, <<344,<<82,780>>>>, <<345,<<114,780>>>>,
     <<346,<<83,769>>>>, <<347,<<115,769>>>>, <<348,<<83,770>>>>,
     <<349,<<115,770>>>>, <<350,<<83,807>>>>, <<351,<<115,807>>>>,
     <<352,<<83,780>>>>, <<353,<<115,780>>>>, <<354,<<84,807>>>>,
     <<355,<<116,807>>>>, <<356,<<84,780>>>>, <<357,<<116,780>>>>,
     <<360,<<85,771>>>>, <<361,<<117,771>>>>, <<362,<<85,772>>>>,
     <<363,<<117,772>>>>, <<364,<<85,774>>>>, <<365,<<117,774>>>>,
     <<366,<<85,778>>>>, <<367,<<117,778>>>>, <<368,<<85,779>>>>,
     <<369,<<117,779>>>>, <<370,<<85,808>>>>, <<371,<<117,808>>>>,
     <<372,<<87,770>>>>, <<373,<<119,770>>>>, <<374,<<89,770>>>>,
     <<375,<<121,770>>>>, <<376,<<89,776>>>>, <<377,<<90,769>>>>,
     <<378,<<122,769>>>>, <<379,<<90,775>>>>, <<380,<<122,775>>>>,
     <<381,<<90,780>>>>, <<382,<<122,780>>>>, <<416,<<79,795>>>>,
     <<417,<<111,795>>>>, <<431,<<85,795>>>>, <<432,<<117,795>>>>,
     <<461,<<65,780>>>>, <<462,<<97,780>>>>, <<463,<<73,780>>>>,
     <<464,<<105,780>>>>, <<465,<<79,780>>>>, <<466,<<111,780>>>>,
     <<467,<<85,780>>>>, <<468,<<117,780>>>>, <<469,<<85,776,772>>>>,
     <<470,<<117,776,772>>>>, <<471,<<85,776,769>>>>, <<472,<<117,776,769>>>>,
     <<473,<<85,776,780>>>>, <<474,<<117,776,780>>>>, <<475,<<85,776,768>>>>,
     <<476,<<117,776,768>>>>, <<478,<<65,776,772>>>>, <<479,<<97,776,772>>>>,
     <<480,<<65,775,772>>>>, <<481,<<97,775,772>>>>, <<482,<<198,772>>>>,
     <<483,<<230,772>>>>, <<486,<<71,780>>>>, <<487,<<103,780>>>>,
     <<488,<<75,780>>>>, <<489,<<107,780>>>>, <<490,<<79,808>>>>,
     <<491,<<111,808>>>>, <<492,<<79,808,772>>>>, <<493,<<111,808,772>>>>,
     <<494,<<439,780>>>>, <<495,<<658,780>>>>, <<496,<<106,780>>>>,
     <<500,<<71,769>>>>, <<501,<<103,769>>>>, <<504,<<78,768>>>>,
     <<505,<<110,768>>>>, <<506,<<65,778,769>>>>, <<507,<<97,778,769>>>>,
     <<508,<<198,769>>>>, <<509,<<230,769>>>>, <<510,<<216,769>>>>,
     <<511,<<248,769>>>>, <<512,<<65,783>>>>, <<513,<<97,783>>>>,
     <<514,<<65,785>>>>, <<515,<<97,785>>>>, <<516,<<69,783>>>>,
     <<517,<<101,783>>>>, <<518,<<69,785>>>>, <<519,<<101,785>>>>,
     <<520,<<73,783>>>>, <<521,<<105,783>>>>, <<522,<<73,785>>>>,
     <<523,<<105,785>>>>, <<524,<<79,783>>>>, <<525,<<111,783>>>>,
     <<526,<<79,785>>>>, <<527,<<111,785>>>>, <<528,<<82,783>>>>,
     <<529,<<114,783>>>>, <<530,<<82,785>>>>, <<531,<<114,785>>>>,
     <<532,<<85,783>>>>, <<533,<<117,783>>>>, <<534,<<85,785>>>>,
     <<535,<<117,785>>>>, <<536,<<83,806>>>>, <<537,<<115,806>>>>,
     <<538,<<84,806>>>>, <<539,<<116,806>>>>, <<542,<<72,780>>>>,
     <<543,<<104,780>>>>, <<550,<<65,775>>>>, <<551,<<97,775>>>>,
     <<552,<<69,807>>>>, <<553,<<101,807>>>>, <<554,<<79,776,772>>>>,
     <<555,<<111,776,772>>>>, <<556,<<79,771,772>>>>, <<557,<<111,771,772>>>>,
     <<558,<<79,775>>>>, <<559,<<111,775>>>>, <<560,<<79,775,772>>>>,
     <<561,<<111,775,772>>>>, <<562,<<89,772>>>>, <<563,<<121,772>>>>,
     <<832,<<768>>>>, <<833,<<769>>>>, <<835,<<787>>>>, <<836,<<776,769>>>>,
     <<884,<<697>>>>, <<894,<<59>>>>, <<901,<<168,769>>>>,
     <<902,<<913,769>>>>, <<903,<<183>>>>, <<904,<<917,769>>>>,
     <<905,<<919,769>>>>, <<906,<<921,769>>>>, <<908,<<927,769>>>>,
     <<910,<<933,769>>>>, <<911,<<937,769>>>>, <<912,<<953,776,769>>>>,
     <<938,<<921,776>>>>, <<939,<<933,776>>>>, <<940,<<945,769>>>>,
     <<941,<<949,769>>>>, <<942,<<951,769>>>>, <<943,<<953,769>>>>,
     <<944,<<965,776,769>>>>, <<970,<<953,776>>>>, <<971,<<965,776>>>>,
     <<972,<<959,769>>>>, <<973,<<965,769>>>>, <<974,<<969,769>>>>,
     <<979,<<978,769>>>>, <<980,<<978,776>>>>, <<1024,<<1045,768>>>>,
     <<1025,<<1045,776>>>>, <<1027,<<1043,769>>>>, <<1031,<<1030,776>>>>,
     <<1036,<<1050,769>>>>, <<1037,<<1048,768>>>>, <<1038,<<1059,774>>>>,
     <<1049,<<1048,774>>>>, <<1081,<<1080,774>>>>, <<1104,<<1077,768>>>>,
     <<1105,<<1077,776>>>>, <<1107,<<1075,769>>>>, <<1111,<<1110,776>>>>,
     <<1116,<<1082,769>>>>, <<1117,<<1080,768>>>>, <<1118,<<1091,774>>>>,
     <<1142,<<1140,783>>>>, <<1143,<<1141,783>>>>, <<1217,<<1046,774>>>>,
     <<1218,<<1078,774>>>>, <<1232,<<1040,774>>>>, <<1233,<<1072,774>>>>,
     <<1234,<<1040,776>>>>, <<1235,<<1072,776>>>>, <<1238,<<1045,774>>>>,
     <<1239,<<1077,774>>>>, <<1242,<<1240,776>>>>, <<1243,<<1241,776>>>>,
     <<1244,<<1046,776>>>>, <<1245,<<1078,776>>>>, <<1246,<<1047,776>>>>,
     <<1247,<<1079,776>>>>, <<1250,<<1048,772>>>>, <<1251,<<1080,772>>>>,
     <<1252,<<1048,776>>>>, <<1253,<<1080,776>>>>, <<1254,<<1054,776>>>>,
     <<1255,<<1086,776>>>>, <<1258,<<1256,776>>>>, <<1259,<<1257,776>>>>,
     <<1260,<<1069,776>>>>, <<1261,<<1101,776>>>>, <<1262,<<1059,772>>>>,
     <<1263,<<1091,772>>>>, <<1264,<<1059,776>>>>, <<1265,<<1091,776>>>>,
     <<1266,<<1059,779>>>>, <<1267,<<1091,779>>>>, <<1268,<<1063,776>>>>,
     <<1269,<<1095,776>>>>, <<1272,<<1067,776>>>>, <<1273,<<1099,776>>>>,
     <<7680,<<65,805>>>>, <<7681,<<97,805>>>>, <<7682,<<66,775>>>>,
     <<7683,<<98,775>>>>, <<7684,<<66,803>>>>, <<7685,<<98,803>>>>,
     <<7686,<<66,817>>>>, <<7687,<<98,817>>>>, <<7688,<<67,807,769>>>>,
     <<7689,<<99,807,769>>>>, <<7690,<<68,775>>>>, <<7691,<<100,775>>>>,
     <<7692,<<68,803>>>>, <<7693,<<100,803>>>>, <<7694,<<68,817>>>>,
     <<7695,<<100,817>>>>, <<7696,<<68,807>>>>, <<7697,<<100,807>>>>,
     <<7698,<<68,813>>>>, <<7699,<<100,813>>>>, <<7700,<<69,772,768>>>>,
     <<7701,<<101,772,768>>>>, <<7702,<<69,772,769>>>>,
     <<7703,<<101,772,769>>>>, <<7704,<<69,813>>>>, <<7705,<<101,813>>>>,
     <<7706,<<69,816>>>>, <<7707,<<101,816>>>>, <<7708,<<69,807,774>>>>,
     <<7709,<<101,807,774>>>>, <<7710,<<70,775>>>>, <<7711,<<102,775>>>>,
     <<7712,<<71,772>>>>, <<7713,<<103,772>>>>, <<7714,<<72,775>>>>,
     <<7715,<<104,775>>>>, <<7716,<<72,803>>>>, <<7717,<<104,803>>>>,
     <<7718,<<72,776>>>>, <<7719,<<104,776>>>>, <<7720,<<72,807>>>>,
     <<7721,<<104,807>>>>, <<7722,<<72,814>>>>, <<7723,<<104,814>>>>,
     <<7724,<<73,816>>>>, <<7725,<<105,816>>>>, <<7726,<<73,776,769>>>>,
     <<7727,<<105,776,769>>>>, <<7728,<<75,769>>>>, <<7729,<<107,769>>>>,
     <<7730,<<75,803>>>>, <<7731,<<107,803>>>>, <<7732,<<75,817>>>>,
     <<7733,<<107,817>>>>, <<7734,<<76,803>>>>, <<7735,<<108,803>>>>,
     <<7736,<<76,803,772>>>>, <<7737,<<108,803,772>>>>, <<7738,<<76,817>>>>,
     <<7739,<<108,817>>>>, <<7740,<<76,813>>>>, <<7741,<<108,813>>>>,
     <<7742,<<77,769>>>>, <<7743,<<109,769>>>>, <<7744,<<77,775>>>>,
     <<7745,<<109,775>>>>, <<7746,<<77,803>>>>, <<7747,<<109,803>>>>,
     <<7748,<<78,775>>>>, <<7749,<<110,775>>>>, <<7750,<<78,803>>>>,
     <<7751,<<110,803>>>>, <<7752,<<78,817>>>>, <<7753,<<110,817>>>>,
     <<7754,<<78,813>>>>, <<7755,<<110,813>>>>, <<7756,<<79,771,769>>>>,
     <<7757,<<111,771,769>>>>, <<7758,<<79,771,776>>>>,
     <<7759,<<111,771,776>>>>, <<7760,<<79,772,768>>>>,
     <<7761,<<111,772,768>>>>, <<7762,<<79,772,769>>>>,
     <<7763,<<111,772,769>>>>, <<7764,<<80,769>>>>, <<7765,<<112,769>>>>,
     <<7766,<<80,775>>>>, <<7767,<<112,775>>>>, <<7768,<<82,775>>>>,
     <<7769,<<114,775>>>>, <<7770,<<82,803>>>>, <<7771,<<114,803>>>>,
     <<7772,<<82,803,772>>>>, <<7773,<<114,803,772>>>>, <<7774,<<82,817>>>>,
     <<7775,<<114,817>>>>, <<7776,<<83,775>>>>, <<7777,<<115,775>>>>,
     <<7778,<<83,803>>>>, <<7779,<<115,803>>>>, <<7780,<<83,769,775>>>>,
     <<7781,<<115,769,775>>>>, <<7782,<<83,780,775>>>>,
     <<7783,<<115,780,775>>>>, <<7784,<<83,803,775>>>>,
     <<7785,<<115,803,775>>>>, <<7786,<<84,775>>>>, <<7787,<<116,775>>>>,
     <<7788,<<84,803>>>>, <<7789,<<116,803>>>>, <<7790,<<84,817>>>>,
     <<7791,<<116,817>>>>, <<7792,<<84,813>>>>, <<7793,<<116,813>>>>,
     <<7794,<<85,804>>>>, <<7795,<<117,804>>>>, <<7796,<<85,816>>>>,
     <<7797,<<117,816>>>>, <<7798,<<85,813>>>>, <<7799,<<117,813>>>>,
     <<7800,<<85,771,769>>>>, <<7801,<<117,771,769>>>>,
     <<7802,<<85,772,776>>>>, <<7803,<<117,772,776>>>>, <<7804,<<86,771>>>>,
     <<7805,<<118,771>>>>, <<7806,<<86,803>>>>, <<7807,<<118,803>>>>,
     <<7808,<<87,768>>>>, <<7809,<<119,768>>>>, <<7810,<<87,769>>>>,
     <<7811,<<119,769>>>>, <<7812,<<87,776>>>>, <<7813,<<119,776>>>>,
     <<7814,<<87,775>>>>, <<7815,<<119,775>>>>, <<7816,<<87,803>>>>,
     <<7817,<<119,803>>>>, <<7818,<<88,775>>>>, <<7819,<<120,775>>>>,
     <<7820,<<88,776>>>>, <<7821,<<120,776>>>>, <<7822,<<89,775>>>>,
     <<7823,<<121,775>>>>, <<7824,<<90,770>>>>, <<7825,<<122,770>>>>,
     <<7826,<<90,803>>>>, <<7827,<<122,803>>>>, <<7828,<<90,817>>>>,
     <<7829,<<122,817>>>>, <<7830,<<104,817>>>>, <<7831,<<116,776>>>>,
     <<7832,<<119,778>>>>, <<7833,<<121,778>>>>, <<7835,<<383,775>>>>,
     <<7840,<<65,803>>>>, <<7841,<<97,803>>>>, <<7842,<<65,777>>>>,
     <<7843,<<97,777>>>>, <<7844,<<65,770,769>>>>, <<7845,<<97,770,769>>>>,
     <<7846,<<65,770,768>>>>, <<7847,<<97,770,768>>>>,
     <<7848,<<65,770,777>>>>, <<7849,<<97,770,777>>>>,
     <<7850,<<65,770,771>>>>, <<7851,<<97,770,771>>>>,
     <<7852,<<65,803,770>>>>, <<7853,<<97,803,770>>>>,
     <<7854,<<65,774,769>>>>, <<7855,<<97,774,769>>>>,
     <<7856,<<65,774,768>>>>, <<7857,<<97,774,768>>>>,
     <<7858,<<65,774,777>>>>, <<7859,<<97,774,777>>>>,
     <<7860,<<65,774,771>>>>, <<7861,<<97,774,771>>>>,
     <<7862,<<65,803,774>>>>, <<7863,<<97,803,774>>>>, <<7864,<<69,803>>>>,
     <<7865,<<101,803>>>>, <<7866,<<69,777>>>>, <<7867,<<101,777>>>>,
     <<7868,<<69,771>>>>, <<7869,<<101,771>>>>, <<7870,<<69,770,769>>>>,
     <<7871,<<101,770,769>>>>, <<7872,<<69,770,768>>>>,
     <<7873,<<101,770,768>>>>, <<7874,<<69,770,777>>>>,
     <<7875,<<101,770,777>>>>, <<7876,<<69,770,771>>>>,
     <<7877,<<101,770,771>>>>, <<7878,<<69,803,770>>>>,
     <<7879,<<101,803,770>>>>, <<7880,<<73,777>>>>, <<7881,<<105,777>>>>,
     <<7882,<<73,803>>>>, <<7883,<<105,803>>>>, <<7884,<<79,803>>>>,
     <<7885,<<111,803>>>>, <<7886,<<79,777>>>>, <<7887,<<111,777>>>>,
     <<7888,<<79,770,769>>>>, <<7889,<<111,770,769>>>>,
     <<7890,<<79,770,768>>>>, <<7891,<<111,770,768>>>>,
     <<7892,<<79,770,777>>>>, <<7893,<<111,770,777>>>>,
     <<7894,<<79,770,771>>>>, <<7895,<<111,770,771>>>>,
     <<7896,<<79,803,770>>>>, <<7897,<<111,803,770>>>>,
     <<7898,<<79,795,769>>>>, <<7899,<<111,795,769>>>>,
     <<7900,<<79,795,768>>>>, <<7901,<<111,795,768>>>>,
     <<7902,<<79,795,777>>>>, <<7903,<<111,795,777>>>>,
     <<7904,<<79,795,771>>>>, <<7905,<<111,795,771>>>>,
     <<7906,<<79,795,803>>>>, <<7907,<<111,795,803>>>>, <<7908,<<85,803>>>>,
     <<7909,<<117,803>>>>, <<7910,<<85,777>>>>, <<7911,<<117,777>>>>,
     <<7912,<<85,795,769>>>>, <<7913,<<117,795,769>>>>,
     <<7914,<<85,795,768>>>>, <<7915,<<117,795,768>>>>,
     <<7916,<<85,795,777>>>>, <<7917,<<117,795,777>>>>,
     <<7918,<<85,795,771>>>>, <<7919,<<117,795,771>>>>,
     <<7920,<<85,795,803>>>>, <<7921,<<117,795,803>>>>, <<7922,<<89,768>>>>,
     <<7923,<<121,768>>>>, <<7924,<<89,803>>>>, <<7925,<<121,803>>>>,
     <<7926,<<89,777>>>>, <<7927,<<121,777>>>>, <<7928,<<89,771>>>>,
     <<7929,<<121,771>>>>, <<8192,<<8194>>>>, <<8193,<<8195>>>> >>

\* The primary weights of the code points that have none or several.
Expansions ==
  << <<>>, <<186,176,189>>, <<186,176,187>>, <<188,176,189>>, <<195,215>>,
     <<301,301>>, <<244,249>>, <<358,270>>, <<277,215>>, <<339,330>>,
     <<310,301>>, <<209,339>>, <<258,249>>, <<270,249>>, <<209,200>>,
     <<286,283>>, <<209,345>>, <<209,343>>, <<310,306>>, <<310,208>>,
     <<227,276>>, <<258,301>>, <<258,339>>, <<389,375,387>>, <<195,360>>,
     <<258,258>>, <<29,29>>, <<29,29,29>>, <<86,86>>, <<86,86,86>>, <<87,87>>,
     <<87,87,87>>, <<24,24>>, <<26,26>>, <<26,24>>, <<24,26>>,
     <<86,86,86,86>> >>

\* Primary weights of the root collation, as ranks: <<first, weight, kind>>
\* for the code points of the repertoire from first up to the next row.
\* Kind 0: all have this weight; kind 1: the weight grows by one per code
\* point; kind 2: the weights are Expansions[weight].
PrimaryRuns ==
  << <<0,1,2>>, <<9,1,1>>, <<14,1,2>>, <<32,9,0>>, <<33,24,0>>, <<34,47,0>>,
     <<35,74,0>>, <<36,181,0>>, <<37,75,0>>, <<38,72,0>>, <<39,40,0>>,
     <<40,54,1>>, <<42,67,0>>, <<43,164,0>>, <<44,20,0>>, <<45,13,0>>,
     <<46,29,0>>, <<47,70,0>>, <<48,185,1>>, <<58,23,0>>, <<59,21,0>>,
     <<60,168,1>>, <<63,26,0>>, <<64,66,0>>, <<65,195,0>>, <<66,200,0>>,
     <<67,205,0>>, <<68,209,0>>, <<69,215,0>>, <<70,227,0>>, <<71,229,0>>,
     <<72,237,0>>, <<73,244,0>>, <<74,249,0>>, <<75,255,0>>, <<76,258,0>>,
     <<77,268,0>>, <<78,270,0>>, <<79,277,0>>, <<80,283,0>>, <<81,286,0>>,
     <<82,290,0>>, <<83,301,0>>, <<84,310,0>>, <<85,318,0>>, <<86,326,0>>,
     <<87,330,0>>, <<88,332,1>>, <<90,339,0>>, <<91,56,0>>, <<92,71,0>>,
     <<93,57,0>>, <<94,99,0>>, <<95,11,0>>, <<96,96,0>>, <<97,195,0>>,
     <<98,200,0>>, <<99,205,0>>, <<100,209,0>>, <<101,215,0>>, <<102,227,0>>,
     <<103,229,0>>, <<104,237,0>>, <<105,244,0>>, <<106,249,0>>,
     <<107,255,0>>, <<108,258,0>>, <<109,268,0>>, <<110,270,0>>,
     <<111,277,0>>, <<112,283,0>>, <<113,286,0>>, <<114,290,0>>,
     <<115,301,0>>, <<116,310,0>>, <<117,318,0>>, <<118,326,0>>,
     <<119,330,0>>, <<120,332,1>>, <<122,339,0>>, <<123,58,0>>, <<124,172,0>>,
     <<125,59,0>>, <<126,174,0>>, <<127,1,2>>, <<133,6,0>>, <<134,1,2>>,
     <<160,9,0>>, <<161,25,0>>, <<162,180,0>>, <<163,182,0>>, <<164,179,0>>,
     <<165,183,0>>, <<166,173,0>>, <<167,63,0>>, <<168,103,0>>, <<169,161,0>>,
     <<170,195,0>>, <<171,52,0>>, <<172,171,0>>, <<173,1,2>>, <<174,162,0>>,
     <<175,100,0>>, <<176,159,0>>, <<177,165,0>>, <<178,187,1>>, <<180,97,0>>,
     <<181,391,0>>, <<182,64,0>>, <<183,30,0>>, <<184,106,0>>, <<185,186,0>>,
     <<186,277,0>>, <<187,53,0>>, <<188,2,2>>, <<189,3,2>>, <<190,4,2>>,
     <<191,27,0>>, <<192,195,0>>, <<198,5,2>>, <<199,205,0>>, <<200,215,0>>,
     <<204,244,0>>, <<208,209,0>>, <<209,270,0>>, <<210,277,0>>,
     <<215,167,0>>, <<216,277,0>>, <<217,318,0>>, <<221,333,0>>,
     <<222,349,0>>, <<223,6,2>>, <<224,195,0>>, <<230,5,2>>, <<231,205,0>>,
     <<232,215,0>>, <<236,244,0>>, <<240,209,0>>, <<241,270,0>>,
     <<242,277,0>>, <<247,166,0>>, <<248,277,0>>, <<249,318,0>>,
     <<253,333,0>>, <<254,349,0>>, <<255,333,0>>, <<256,195,0>>,
     <<262,205,0>>, <<270,209,0>>, <<274,215,0>>, <<284,229,0>>,
     <<292,237,0>>, <<296,244,0>>, <<305,245,0>>, <<306,7,2>>, <<308,249,0>>,
     <<310,255,0>>, <<312,289,0>>, <<313,258,0>>, <<323,270,0>>, <<329,8,2>>,
     <<330,276,0>>, <<332,277,0>>, <<338,9,2>>, <<340,290,0>>, <<346,301,0>>,
     <<354,310,0>>, <<358,311,0>>, <<360,318,0>>, <<372,330,0>>,
     <<374,333,0>>, <<377,339,0>>, <<383,301,0>>, <<384,202,1>>,
     <<387,204,0>>, <<388,354,0>>, <<390,279,0>>, <<391,207,0>>,
     <<393,210,1>>, <<396,212,0>>, <<397,10,2>>, <<398,217,1>>, <<401,228,0>>,
     <<403,233,0>>, <<404,235,0>>, <<405,239,0>>, <<406,248,0>>,
     <<407,247,0>>, <<408,256,0>>, <<410,260,0>>, <<411,266,0>>,
     <<412,323,0>>, <<413,272,1>>, <<415,280,0>>, <<416,277,0>>,
     <<418,236,0>>, <<420,284,0>>, <<422,291,0>>, <<423,352,0>>,
     <<425,306,1>>, <<427,313,1>>, <<429,314,1>>, <<431,318,0>>,
     <<433,325,0>>, <<434,327,0>>, <<435,336,0>>, <<437,340,0>>,
     <<439,345,1>>, <<441,346,1>>, <<443,351,0>>, <<444,353,0>>, <<446,11,2>>,
     <<447,350,0>>, <<448,367,1>>, <<452,12,2>>, <<455,13,2>>, <<458,14,2>>,
     <<461,195,0>>, <<463,244,0>>, <<465,277,0>>, <<467,318,0>>,
     <<477,217,0>>, <<478,195,0>>, <<482,5,2>>, <<484,232,0>>, <<486,229,0>>,
     <<488,255,0>>, <<490,277,0>>, <<494,345,0>>, <<496,249,0>>, <<497,12,2>>,
     <<500,229,0>>, <<502,239,0>>, <<503,350,0>>, <<504,270,0>>,
     <<506,195,0>>, <<508,5,2>>, <<510,277,0>>, <<512,195,0>>, <<516,215,0>>,
     <<520,244,0>>, <<524,277,0>>, <<528,290,0>>, <<532,318,0>>,
     <<536,301,0>>, <<538,310,0>>, <<540,338,0>>, <<542,237,0>>,
     <<544,273,0>>, <<545,213,0>>, <<546,282,0>>, <<548,341,0>>,
     <<550,195,0>>, <<552,215,0>>, <<554,277,0>>, <<562,333,0>>,
     <<564,264,0>>, <<565,275,0>>, <<566,316,0>>, <<567,250,0>>, <<568,15,2>>,
     <<569,16,2>>, <<570,196,0>>, <<571,206,0>>, <<573,260,0>>, <<574,312,0>>,
     <<575,303,0>>, <<576,344,0>>, <<577,356,0>>, <<579,202,0>>,
     <<580,319,0>>, <<581,329,0>>, <<582,216,0>>, <<584,251,0>>,
     <<586,288,0>>, <<588,292,0>>, <<590,335,0>>, <<592,197,1>>,
     <<595,203,0>>, <<596,279,0>>, <<597,208,0>>, <<598,210,1>>,
     <<600,220,0>>, <<601,218,0>>, <<602,221,0>>, <<603,219,0>>,
     <<604,222,1>>, <<607,253,0>>, <<608,233,0>>, <<609,230,1>>,
     <<611,235,0>>, <<612,226,0>>, <<613,320,0>>, <<614,240,1>>,
     <<616,247,1>>, <<618,246,0>>, <<619,261,1>>, <<622,265,0>>,
     <<623,323,1>>, <<625,269,0>>, <<626,272,0>>, <<627,274,0>>,
     <<628,271,0>>, <<629,280,0>>, <<630,278,0>>, <<631,281,0>>,
     <<632,285,0>>, <<633,293,1>>, <<640,291,0>>, <<641,300,0>>,
     <<642,302,0>>, <<643,306,0>>, <<644,254,0>>, <<645,308,1>>,
     <<647,317,0>>, <<648,315,0>>, <<649,319,0>>, <<650,325,0>>,
     <<651,327,0>>, <<652,329,0>>, <<653,331,0>>, <<654,267,0>>,
     <<655,334,0>>, <<656,342,1>>, <<658,345,0>>, <<659,348,0>>,
     <<660,355,0>>, <<661,361,0>>, <<662,366,0>>, <<663,371,1>>,
     <<665,201,0>>, <<666,225,0>>, <<667,234,0>>, <<668,238,0>>,
     <<669,252,0>>, <<670,257,0>>, <<671,259,0>>, <<672,287,0>>,
     <<673,364,1>>, <<675,12,2>>, <<676,17,2>>, <<677,18,2>>, <<678,11,2>>,
     <<679,19,2>>, <<680,20,2>>, <<681,21,2>>, <<682,22,2>>, <<683,23,2>>,
     <<684,373,1>>, <<686,321,1>>, <<688,237,0>>, <<689,240,0>>,
     <<690,249,0>>, <<691,290,0>>, <<692,293,0>>, <<693,295,0>>,
     <<694,300,0>>, <<695,330,0>>, <<696,333,0>>, <<697,108,0>>,
     <<698,110,0>>, <<699,242,0>>, <<700,358,0>>, <<701,243,0>>,
     <<702,360,0>>, <<703,362,0>>, <<704,357,0>>, <<705,363,0>>,
     <<706,111,1>>, <<720,177,1>>, <<722,125,1>>, <<728,101,1>>,
     <<730,104,0>>, <<731,107,0>>, <<732,98,0>>, <<733,105,0>>, <<734,131,1>>,
     <<736,235,0>>, <<737,258,0>>, <<738,301,0>>, <<739,332,0>>,
     <<740,361,0>>, <<741,133,1>>, <<750,359,0>>, <<751,142,1>>, <<768,1,2>>,
     <<867,195,0>>, <<868,215,0>>, <<869,244,0>>, <<870,277,0>>,
     <<871,318,0>>, <<872,205,0>>, <<873,209,0>>, <<874,237,0>>,
     <<875,268,0>>, <<876,290,0>>, <<877,310,0>>, <<878,326,0>>,
     <<879,332,0>>, <<880,384,0>>, <<882,412,0>>, <<884,108,1>>,
     <<886,381,0>>, <<890,387,0>>, <<891,403,0>>, <<892,402,0>>,
     <<893,404,0>>, <<894,21,0>>, <<895,388,0>>, <<900,97,0>>, <<901,103,0>>,
     <<902,375,0>>, <<903,30,0>>, <<904,379,0>>, <<905,385,0>>, <<906,387,0>>,
     <<908,394,0>>, <<910,406,0>>, <<911,410,0>>, <<912,387,0>>,
     <<913,375,1>>, <<918,383,0>>, <<919,385,1>>, <<922,389,1>>,
     <<929,399,0>>, <<931,401,0>>, <<932,405,1>>, <<938,387,0>>,
     <<939,406,0>>, <<940,375,0>>, <<941,379,0>>, <<942,385,0>>,
     <<943,387,0>>, <<944,406,0>>, <<945,375,1>>, <<950,383,0>>,
     <<951,385,1>>, <<954,389,1>>, <<961,399,0>>, <<962,401,0>>,
     <<964,405,1>>, <<970,387,0>>, <<971,406,0>>, <<972,394,0>>,
     <<973,406,0>>, <<974,410,0>>, <<975,24,2>>, <<976,376,0>>, <<977,386,0>>,
     <<978,406,0>>, <<981,407,0>>, <<982,395,0>>, <<983,24,2>>, <<984,398,0>>,
     <<986,382,0>>, <<988,380,0>>, <<990,397,0>>, <<992,411,0>>,
     <<994,414,0>>, <<996,415,0>>, <<998,416,0>>, <<1000,417,0>>,
     <<1002,418,0>>, <<1004,419,0>>, <<1006,420,0>>, <<1008,389,0>>,
     <<1009,399,0>>, <<1010,401,0>>, <<1011,388,0>>, <<1012,386,0>>,
     <<1013,379,0>>, <<1014,163,0>>, <<1015,413,0>>, <<1017,401,0>>,
     <<1018,396,0>>, <<1020,400,0>>, <<1021,403,0>>, <<1022,402,0>>,
     <<1023,404,0>>, <<1024,434,0>>, <<1026,432,0>>, <<1027,426,0>>,
     <<1028,435,0>>, <<1029,439,0>>, <<1030,443,0>>, <<1032,445,0>>,
     <<1033,454,0>>, <<1034,462,0>>, <<1035,474,0>>, <<1036,446,0>>,
     <<1037,441,0>>, <<1038,475,0>>, <<1039,497,0>>, <<1040,421,0>>,
     <<1041,424,1>>, <<1044,431,0>>, <<1045,434,0>>, <<1046,436,0>>,
     <<1047,438,0>>, <<1048,441,0>>, <<1049,444,0>>, <<1050,446,0>>,
     <<1051,452,0>>, <<1052,455,0>>, <<1053,457,0>>, <<1054,463,0>>,
     <<1055,465,0>>, <<1056,468,0>>, <<1057,470,0>>, <<1058,472,0>>,
     <<1059,475,0>>, <<1060,479,1>>, <<1062,489,0>>, <<1063,491,0>>,
     <<1064,498,1>>, <<1069,505,1>>, <<1072,421,0>>, <<1073,424,1>>,
     <<1076,431,0>>, <<1077,434,0>>, <<1078,436,0>>, <<1079,438,0>>,
     <<1080,441,0>>, <<1081,444,0>>, <<1082,446,0>>, <<1083,452,0>>,
     <<1084,455,0>>, <<1085,457,0>>, <<1086,463,0>>, <<1087,465,0>>,
     <<1088,468,0>>, <<1089,470,0>>, <<1090,472,0>>, <<1091,475,0>>,
     <<1092,479,1>>, <<1094,489,0>>, <<1095,491,0>>, <<1096,498,1>>,
     <<1101,505,1>>, <<1104,434,0>>, <<1106,432,0>>, <<1107,426,0>>,
     <<1108,435,0>>, <<1109,439,0>>, <<1110,443,0>>, <<1112,445,0>>,
     <<1113,454,0>>, <<1114,462,0>>, <<1115,474,0>>, <<1116,446,0>>,
     <<1117,441,0>>, <<1118,475,0>>, <<1119,497,0>>, <<1120,485,0>>,
     <<1122,504,0>>, <<1124,508,0>>, <<1126,509,0>>, <<1128,511,0>>,
     <<1130,510,0>>, <<1132,512,0>>, <<1134,513,0>>, <<1136,514,0>>,
     <<1138,515,0>>, <<1140,516,0>>, <<1144,478,0>>, <<1146,488,0>>,
     <<1148,487,0>>, <<1150,486,0>>, <<1152,467,0>>, <<1154,160,0>>,
     <<1155,1,2>>, <<1162,442,0>>, <<1164,503,0>>, <<1166,469,0>>,
     <<1168,426,0>>, <<1170,427,0>>, <<1172,429,0>>, <<1174,437,0>>,
     <<1176,433,0>>, <<1178,447,0>>, <<1180,451,0>>, <<1182,450,0>>,
     <<1184,449,0>>, <<1186,459,0>>, <<1188,461,0>>, <<1190,466,0>>,
     <<1192,517,0>>, <<1194,471,0>>, <<1196,473,0>>, <<1198,476,0>>,
     <<1200,477,0>>, <<1202,483,0>>, <<1204,490,0>>, <<1206,492,0>>,
     <<1208,494,0>>, <<1210,484,0>>, <<1212,495,0>>, <<1214,496,0>>,
     <<1216,518,0>>, <<1217,436,0>>, <<1219,448,0>>, <<1221,453,0>>,
     <<1223,460,0>>, <<1225,458,0>>, <<1227,493,0>>, <<1229,456,0>>,
     <<1231,518,0>>, <<1232,421,0>>, <<1236,423,0>>, <<1238,434,0>>,
     <<1240,422,0>>, <<1244,436,0>>, <<1246,438,0>>, <<1248,440,0>>,
     <<1250,441,0>>, <<1254,463,0>>, <<1256,464,0>>, <<1260,505,0>>,
     <<1262,475,0>>, <<1268,491,0>>, <<1270,430,0>>, <<1272,501,0>>,
     <<1274,428,0>>, <<1276,481,0>>, <<1278,482,0>>, <<7680,195,0>>,
     <<7682,200,0>>, <<7688,205,0>>, <<7690,209,0>>, <<7700,215,0>>,
     <<7710,227,0>>, <<7712,229,0>>, <<7714,237,0>>, <<7724,244,0>>,
     <<7728,255,0>>, <<7734,258,0>>, <<7742,268,0>>, <<7748,270,0>>,
     <<7756,277,0>>, <<7764,283,0>>, <<7768,290,0>>, <<7776,301,0>>,
     <<7786,310,0>>, <<7794,318,0>>, <<7804,326,0>>, <<7808,330,0>>,
     <<7818,332,0>>, <<7822,333,0>>, <<7824,339,0>>, <<7830,237,0>>,
     <<7831,310,0>>, <<7832,330,0>>, <<7833,333,0>>, <<7834,25,2>>,
     <<7835,301,0>>, <<7836,304,1>>, <<7838,6,2>>, <<7839,214,0>>,
     <<7840,195,0>>, <<7864,215,0>>, <<7880,244,0>>, <<7884,277,0>>,
     <<7908,318,0>>, <<7922,333,0>>, <<7930,26,2>>, <<7932,328,0>>,
     <<7934,337,0>>, <<8192,9,0>>, <<8203,1,2>>, <<8208,14,0>>, <<8210,15,1>>,
     <<8214,62,0>>, <<8215,12,0>>, <<8216,40,0>>, <<8220,47,0>>,
     <<8224,78,1>>, <<8228,29,0>>, <<8229,27,2>>, <<8230,28,2>>,
     <<8231,82,0>>, <<8232,7,1>>, <<8234,1,2>>, <<8239,9,0>>, <<8240,76,1>>,
     <<8242,86,0>>, <<8243,29,2>>, <<8244,30,2>>, <<8245,87,0>>,
     <<8246,31,2>>, <<8247,32,2>>, <<8248,88,0>>, <<8249,45,1>>,
     <<8251,89,0>>, <<8252,33,2>>, <<8253,28,0>>, <<8254,10,0>>,
     <<8255,90,0>>, <<8256,92,0>>, <<8257,94,1>>, <<8259,83,0>>,
     <<8260,176,0>>, <<8261,60,1>>, <<8263,34,2>>, <<8264,35,2>>,
     <<8265,36,2>>, <<8266,73,0>>, <<8267,65,0>>, <<8268,84,1>>,
     <<8270,68,0>>, <<8271,22,0>>, <<8272,93,0>>, <<8273,69,0>>,
     <<8274,175,0>>, <<8275,19,0>>, <<8276,91,0>>, <<8277,31,1>>,
     <<8279,37,2>>, <<8280,33,1>>, <<8287,9,0>>, <<8288,1,2>>, <<8294,1,2>>,
     <<65281,24,0>>, <<65282,47,0>>, <<65283,74,0>>, <<65284,181,0>>,
     <<65285,75,0>>, <<65286,72,0>>, <<65287,40,0>>, <<65288,54,1>>,
     <<65290,67,0>>, <<65291,164,0>>, <<65292,20,0>>, <<65293,13,0>>,
     <<65294,29,0>>, <<65295,70,0>>, <<65296,185,1>>, <<65306,23,0>>,
     <<65307,21,0>>, <<65308,168,1>>, <<65311,26,0>>, <<65312,66,0>>,
     <<65313,195,0>>, <<65314,200,0>>, <<65315,205,0>>, <<65316,209,0>>,
     <<65317,215,0>>, <<65318,227,0>>, <<65319,229,0>>, <<65320,237,0>>,
     <<65321,244,0>>, <<65322,249,0>>, <<65323,255,0>>, <<65324,258,0>>,
     <<65325,268,0>>, <<65326,270,0>>, <<65327,277,0>>, <<65328,283,0>>,
     <<65329,286,0>>, <<65330,290,0>>, <<65331,301,0>>, <<65332,310,0>>,
     <<65333,318,0>>, <<65334,326,0>>, <<65335,330,0>>, <<65336,332,1>>,
     <<65338,339,0>>, <<65339,56,0>>, <<65340,71,0>>, <<65341,57,0>>,
     <<65342,99,0>>, <<65343,11,0>>, <<65344,96,0>>, <<65345,195,0>>,
     <<65346,200,0>>, <<65347,205,0>>, <<65348,209,0>>, <<65349,215,0>>,
     <<65350,227,0>>, <<65351,229,0>>, <<65352,237,0>>, <<65353,244,0>>,
     <<65354,249,0>>, <<65355,255,0>>, <<65356,258,0>>, <<65357,268,0>>,
     <<65358,270,0>>, <<65359,277,0>>, <<65360,283,0>>, <<65361,286,0>>,
     <<65362,290,0>>, <<65363,301,0>>, <<65364,310,0>>, <<65365,318,0>>,
     <<65366,326,0>>, <<65367,330,0>>, <<65368,332,1>>, <<65370,339,0>>,
     <<65371,58,0>>, <<65372,172,0>>, <<65373,59,0>>, <<65374,174,0>> >>

\* Contractions of the root collation within the repertoire (l with middle
\* dot, Cyrillic i with breve): <<code points, primary weights>>.
ContractionRows ==
  { <<<<76,183>>,<<258>>>>, <<<<108,183>>,<<258>>>>, <<<<1048,774>>,<<444>>>>,
     <<<<1080,774>>,<<444>>>> }

\* Weight of a number: below the weight of every digit, above the weights
\* of white space, punctuation and symbols.
NumericWeight == 184

\* Value of a code point as a decimal digit, 10 or more when it is none.
DigitValue(cp) == cp - RowOf(DecimalZeros, Known(cp))[1]

IsDecimal(cp) == DigitValue(cp) <= 9

\* Canonical combining class of a code point.
CombiningClass(cp) ==
  LET row == RowOf(CombiningClasses, Known(cp))
  IN  IF cp <= row[2] THEN row[3] ELSE 0

\* Full canonical decomposition of a code point.
Decompose(cp) ==
  LET row == RowOf(Decompositions, Known(cp))
  IN  IF row[1] = cp THEN row[2] ELSE << cp >>

DecomposeAll(points) ==
  Concat([i \in 1..Len(points) |-> Decompose(points[i])], 1, Len(points))

\* Where a combining mark of this class goes in the run of marks done: before
\* the marks of a higher class that end it, from position j down.
RECURSIVE MarkSlot(_, _, _)
MarkSlot(done, class, j) ==
  IF j > 0 /\ CombiningClass(done[j]) > class
  THEN MarkSlot(done, class, j - 1)
  ELSE j

\* A run of combining marks in the order of their classes, marks of one
\* class in their order.
RECURSIVE SortMarks(_, _)
SortMarks(done, rest) ==
  IF Len(rest) = 0 THEN done
  ELSE LET j == MarkSlot(done, CombiningClass(rest[1]), Len(done))
       IN  SortMarks(SubSeq(done, 1, j) \o << rest[1] >>
                       \o SubSeq(done, j + 1, Len(done)),
                     Drop(rest, 1))

\* Canonical ordering at position i of the text, whose combining classes are
\* given: a starter stays, the first mark of a run of marks stands for the
\* sorted run, the other marks of the run for nothing.
ReorderAt(text, classes, i) ==
  IF classes[i] = 0 THEN << text[i] >>
  ELSE IF i > 1 /\ classes[i - 1] > 0 THEN << >>
  ELSE SortMarks(<< >>,
         SubSeq(text, i, First({ j \in i..Len(text) :
                                  j = Len(text) \/ classes[j + 1] = 0 })))

ReorderWith(text, classes) ==
  Concat([i \in 1..Len(text) |-> ReorderAt(text, classes, i)], 1, Len(text))

Reorder(text) ==
  ReorderWith(text, [i \in 1..Len(text) |-> CombiningClass(text[i])])

\* Normalization form D.
NFD(points) == Reorder(DecomposeAll(points))

\* Primary weights of a code point found in its row.
WeightsIn(row, cp) ==
  IF row[3] = 2 THEN Expansions[row[2]]
  ELSE << row[2] + (row[3] * (cp - row[1])) >>

TableWeights(cp) == WeightsIn(RowOf(PrimaryRuns, Known(cp)), cp)

WeightsOf(points) ==
  Concat([i \in 1..Len(points) |-> TableWeights(points[i])], 1, Len(points))

ContractionKeys == { row[1] : row \in ContractionRows }

ContractionWeights ==
  [path \in ContractionKeys |-> (CHOOSE row \in ContractionRows : row[1] = path)[2]]

\* The contractions that start a longer contraction.
ContractionPrefixes ==
  { path \in ContractionKeys :
      \E longer \in ContractionKeys :
        Len(longer) > Len(path) /\ SubSeq(longer, 1, Len(path)) = path }

\* The code points that start a contraction.
ContractionStarts == { path[1] : path \in ContractionKeys }

IsContraction(path) == path \in ContractionKeys

\* A longer contraction starts with this path.
HasLonger(path) ==
  IF Len(path) = 1 THEN path[1] \in ContractionStarts
  ELSE path \in ContractionPrefixes

\* Primary weights of one collation element: a contraction or a code
\* point.
ElementWeights(path) ==
  IF path \in ContractionKeys THEN ContractionWeights[path]
  ELSE WeightsOf(path)

\* Length of the longest contraction that starts the text s, 1 when there
\* is none; the first p code points are matched.
RECURSIVE Contiguous(_, _)
Contiguous(s, p) ==
  IF p < Len(s) /\ IsContraction(SubSeq(s, 1, p + 1))
  THEN Contiguous(s, p + 1)
  ELSE p

\* Discontiguous match: the combining marks from position k that extend the
\* path to a contraction join it when no mark skipped before them has a
\* class as high as theirs; prev is the class of the last mark skipped.
RECURSIVE Discontiguous(_, _, _, _, _)
Discontiguous(s, k, prev, path, used) ==
  IF k > Len(s) \/ CombiningClass(s[k]) = 0
  THEN [path |-> path, used |-> used]
  ELSE IF prev < CombiningClass(s[k]) /\ IsContraction(Append(path, s[k]))
  THEN IF HasLonger(Append(path, s[k]))
       THEN Discontiguous(s, k + 1, prev, Append(path, s[k]), used \cup {k})
       ELSE [path |-> Append(path, s[k]), used |-> used \cup {k}]
  ELSE Discontiguous(s, k + 1, CombiningClass(s[k]), path, used)

\* The collation element that starts the text s, p code points being
\* matched contiguously: [path, used], used the positions of its code
\* points.  Marks are skipped when the two code points after the match are
\* combining marks.
MatchFrom(s, p) ==
  IF /\ p + 1 < Len(s)
     /\ HasLonger(SubSeq(s, 1, p))
     /\ CombiningClass(s[p + 1]) # 0
     /\ CombiningClass(s[p + 2]) # 0
  THEN Discontiguous(s, p + 2, CombiningClass(s[p + 1]), SubSeq(s, 1, p), 1..p)
  ELSE [path |-> SubSeq(s, 1, p), used |-> 1..p]

\* Number of decimal digits that start the text.
DigitRun(s) ==
  First({ i \in 1..Len(s) : i = Len(s) \/ ~IsDecimal(s[i + 1]) })

\* Number of zeros that start the digits d, the last digit aside.
LeadingZeros(d) == First({ i \in 1..Len(d) : i = Len(d) \/ d[i] # 0 }) - 1

\* A number is weighed in segments of at most this many digits.
SegmentDigits == 254

\* Key of a number: by segment, the weight of numbers, the number of digits
\* without leading zeros, then the digits.
RECURSIVE NumberKey(_)
SegmentKey(d, n) ==
  << NumericWeight, n >> \o SubSeq(d, 1, n)
  \o (IF n < Len(d) THEN NumberKey(Drop(d, n)) ELSE << >>)

NumberKey(d) ==
  LET rest == Drop(d, LeadingZeros(d))
  IN  SegmentKey(rest, IF Len(rest) > SegmentDigits THEN SegmentDigits ELSE Len(rest))

\* The text s without the positions used.
Without(s, used) ==
  Concat([i \in 1..Len(s) |-> IF i \in used THEN << >> ELSE << s[i] >>], 1, Len(s))

\* A digit, with the numeric option, or a code point that starts a
\* contraction: the collation element depends on the text after it.
StartsRun(cp, numeric) == (numeric /\ IsDecimal(cp)) \/ cp \in ContractionStarts

\* Number of code points that start the text s and are collation elements of
\* their own.
PlainRun(s, numeric) ==
  First({ i \in 1..Len(s) : i = Len(s) \/ StartsRun(s[i + 1], numeric) })

\* Primary collation key of normalized text: the weights of its collation
\* elements; with the numeric option a run of digits is one number.
RECURSIVE KeyFrom(_, _)
KeyAfter(s, match, numeric) ==
  ElementWeights(match.path) \o KeyFrom(Without(s, match.used), numeric)

KeyOfPlain(s, n, numeric) ==
  Concat([i \in 1..n |-> ElementWeights(<< s[i] >>)], 1, n)
  \o KeyFrom(Drop(s, n), numeric)

KeyFrom(s, numeric) ==
  IF Len(s) = 0 THEN << >>
  ELSE IF numeric /\ IsDecimal(s[1])
  THEN NumberKey([i \in 1..DigitRun(s) |-> DigitValue(s[i])])
       \o KeyFrom(Drop(s, DigitRun(s)), numeric)
  ELSE IF s[1] \in ContractionStarts
  THEN KeyAfter(s, MatchFrom(s, Contiguous(s, 1)), numeric)
  ELSE KeyOfPlain(s, PlainRun(s, numeric), numeric)

\* Collation key of a string under {numeric: true, sensitivity: "base"}.
CollationKey(s) == KeyFrom(NFD(CodePoints(s)), TRUE)

\* Sign of the difference of two keys at the first position i where they
\* differ, an absent weight being below every weight.
CompareAt(a, b, i) ==
  IF i > Len(a) /\ i > Len(b) THEN 0
  ELSE IF i > Len(a) THEN -1
  ELSE IF i > Len(b) THEN 1
  ELSE IF a[i] < b[i] THEN -1 ELSE 1

CompareKeys(a, b) ==
  CompareAt(a, b, First({ i \in 1..(Len(a) + Len(b) + 1) :
                            i > Len(a) \/ i > Len(b) \/ a[i] # b[i] }))

\* Variant of localeCompare without the numeric option: digits compare one
\* by one.
PlainKey(s) == KeyFrom(NFD(CodePoints(s)), FALSE)

localeCompareNotNumeric(a, b) == CompareKeys(PlainKey(a), PlainKey(b))

\* The comparator of line 32: negative, zero or positive.
localeCompare(a, b) == CompareKeys(CollationKey(a), CollationKey(b))

(***************************************************************************)
(* Inputs: the strings of the manifests and listings explored.             *)
(***************************************************************************)
ClipOneMp4 == << "c", "l", "i", "p", " ", "o", "n", "e", ".", "m", "p", "4" >>

Clip2 == << "c", "l", "i", "p", "2" >>

VideosClip2Mp4 ==
  << "v", "i", "d", "e", "o", "s", "/", "c", "l", "i", "p", "2", ".", "m",
  "p", "4" >>

PJpg == << "p", ".", "j", "p", "g" >>

AMp4 == << "a", ".", "m", "p", "4" >>

AUpperMp4 == << "A", ".", "M", "P", "4" >>

BMp4 == << "b", ".", "m", "p", "4" >>

\* "nsfw/A.mp4": a file named like a.mp4, letter case aside, in a directory
\* that NSFW_PATTERN matches.
NsfwAMp4 == << "n", "s", "f", "w", "/", "A", ".", "m", "p", "4" >>

ACapitalMp4 == << "A", ".", "m", "p", "4" >>

X == << "x" >>

HttpXMp4 == << "h", "t", "t", "p", ":", "/", "/", "h", "/", "x", ".", "m", "p", "4" >>

PercentMp4 == << "1", "0", "0", "%", ".", "m", "p", "4" >>

ClipsDir == << "c", "l", "i", "p", "s", "/" >>

TPng == << "t", ".", "p", "n", "g" >>

UpMp4 == << ".", ".", "/", "u", "p", ".", "m", "p", "4" >>

NotesTxt == << "n", "o", "t", "e", "s", ".", "t", "x", "t" >>

Video10 == << "v", "i", "d", "e", "o", "1", "0" >>

Video2 == << "v", "i", "d", "e", "o", "2" >>

Video1 == << "v", "i", "d", "e", "o", "1" >>

V10Mp4 == << "v", "1", "0", ".", "m", "p", "4" >>

V2Mp4 == << "v", "2", ".", "m", "p", "4" >>

V1Mp4 == << "v", "1", ".", "m", "p", "4" >>

\* "https://h/<0100>.mp4" and "https://h/<0101>.mp4": A with macron, capital
\* and small.
HttpUpperMp4 ==
  << "h", "t", "t", "p", "s", ":", "/", "/", "h", "/", "<0100>", ".", "m", "p", "4" >>

HttpLowerMp4 ==
  << "h", "t", "t", "p", "s", ":", "/", "/", "h", "/", "<0101>", ".", "m", "p", "4" >>

\* {name: "x", url: ["http://h/x.mp4"]}: a record whose url is an array.
ArrayUrlRecord ==
  RawObject(Str(X), Undefined, Undefined, Arr(<< HttpXMp4 >>), Undefined, Undefined)

\* {name: name, url: url}
NamedRecord(name, url) ==
  RawObject(Str(name), Undefined, Undefined, Str(url), Undefined, Undefined)

\* {name: null, file: null, title: title, url: url, thumbnail: thumbnail}
TitledRecord(title, url, thumbnail) ==
  RawObject(Null, Null, Str(title), Str(url), Undefined, Str(thumbnail))

\* Records a manifest may hold.
RecordPool ==
  { RawString(ClipOneMp4),
    RawObject(Str(Clip2), Undefined, Undefined, Str(VideosClip2Mp4), Str(PJpg), Undefined),
    RawString(<< >>),
    RawObject(Str(PercentMp4), Undefined, Undefined, Undefined, Undefined, Undefined),
    RawObject(Undefined, Undefined, Undefined, Str(ClipsDir), Undefined, Undefined),
    NamedRecord(Video10, V10Mp4),
    NamedRecord(Video2, V2Mp4),
    TitledRecord(Video1, V1Mp4, TPng),
    ArrayUrlRecord,
    RawString(HttpUpperMp4),
    RawString(HttpLowerMp4) }

\* href attribute values a directory listing may hold.
HrefPool ==
  { AMp4, AUpperMp4, BMp4, NsfwAMp4, UpMp4, NotesTxt, PercentMp4 }

\* Sequences over S of length at most n.
SeqsUpTo(S, n) == UNION { [1..k -> S] : k \in 0..n }

\* What response.json() produces: a rejection when the body cannot be read
\* or is unparsable text, an array, an object with a files array, an object
\* without one ({"videos": [...]}), or null.
NoPayload == [shape |-> "none", records |-> << >>]

Payloads ==
  { [shape |-> sh, records |-> << >>] :
      sh \in {"unreadable", "unparsable", "other", "null"} }
  \cup { [shape |-> sh, records |-> rs] :
           sh \in {"array", "files"}, rs \in SeqsUpTo(RecordPool, MaxInputs) }

\* The anchors a directory listing may hold, read after a manifest of the
\* given records.
Listings(records) == SeqsUpTo(HrefPool, MaxInputs - Len(records))

\* How a fetch settles: rejected (network failure) or a response status.
FetchOutcomes ==
  { [rejected |-> TRUE, status |-> 0] }
  \cup { [rejected |-> FALSE, status |-> st] : st \in {200, 404, 500} }

\* response.ok
ResponseOk(r) == r.status >= 200 /\ r.status <= 299

\* Fragments an argument of resolveVideoPath is built from.
PathTokens ==
  { videosDirectory, << "h", "t", "t", "p", ":" >>, << "H", "t", "t", "p", "s", ":" >>,
    << "/" >>, << "." >>, << "\\" >>, << " " >>, << "%" >>, << "2", "5" >>,
    << "2", "f" >>, << "a" >>, << "?" >>, << "%", "C", "3" >>, << "%", "A", "9" >>,
    << "<00E9>" >>, << "<00A0>" >>, << "<D83D>" >>, << "<DE00>" >> }

RECURSIVE Concats(_)
Concats(n) ==
  IF n = 0 THEN { << >> }
  ELSE Concats(n - 1) \cup { t \o c : t \in PathTokens, c \in Concats(n - 1) }

PathInputs == Concats(MaxParts)

(***************************************************************************)
(* normalizeEntry, the href pipeline and the comparator are pure: their    *)
(* values on the inputs above are tabulated once.                          *)
(***************************************************************************)
NormalizedRecord == [r \in RecordPool |-> normalizeEntry(r)]

ScrapedHref == [h \in HrefPool |-> ScrapeHref(h)]

\* What normalizeEntry gives on the inputs, and the entries among it.
PoolResults ==
  { NormalizedRecord[r] : r \in RecordPool } \cup { ScrapedHref[h] : h \in HrefPool }

PoolEntries == { r \in PoolResults : r.k = "entry" }

EntryNames == { e.name : e \in PoolEntries }

\* The comparator of line 32 on every pair of names.
CompareAll(names) == [a \in names |-> [b \in names |-> localeCompare(a, b)]]

ComparedNames == CompareAll(EntryNames)

\* The exception that ends an Array.prototype.map over results, or the
\* entries .filter(Boolean) keeps: [err, entries], err the kind of the first
\* exception, "none" when there is none.
MapResult(results) ==
  IF \E i \in 1..Len(results) : results[i].k = "throw"
  THEN [err |-> results[CHOOSE i \in 1..Len(results) :
                          /\ results[i].k = "throw"
                          /\ \A j \in 1..(i - 1) : results[j].k # "throw"].err,
        entries |-> << >>]
  ELSE [err |-> "none",
        entries |-> SelectSeq(results, LAMBDA r : r.k = "entry")]

\* records.map(normalizeEntry).filter(Boolean), lines 81 and 85.
MapNormalize(records) ==
  MapResult([i \in 1..Len(records) |-> NormalizedRecord[records[i]]])

\* fetchManifest after response.json() settled, lines 78-88:
\* [err, entries], err "none" when it returns.
ManifestEntries(body) ==
  CASE body.shape = "unreadable" -> [err |-> "NetworkError", entries |-> << >>]
    [] body.shape = "unparsable" -> [err |-> "SyntaxError", entries |-> << >>]
    [] body.shape \in {"array", "files"} -> MapNormalize(body.records)
    \* payload.files of null
    [] body.shape = "null" -> [err |-> "TypeError", entries |-> << >>]
    [] OTHER -> [err |-> "ManifestFormat", entries |-> << >>]

\* Lines 105-112: the anchors the filters keep, normalized.
ScrapeEntries(anchors) ==
  MapResult(SelectSeq([i \in 1..Len(anchors) |-> ScrapedHref[anchors[i]]],
                      LAMBDA r : r.k # "filtered"))

(***************************************************************************)
(* dedupeEntries.                                                          *)
(***************************************************************************)
\* What the filter of dedupeEntries settles with: [err, entries], the
\* entries kept, or err the exception that ended it.
Kept(entries) == [err |-> "none", entries |-> entries]

FilterThrew(err) == [err |-> err, entries |-> << >>]

\* The entry the callback kept, before what the filter keeps of the rest.
KeptBefore(entry, rest) ==
  IF rest.err # "none" THEN rest ELSE Kept(<< entry >> \o rest.entries)

\* !entry.url: the empty string; an array is truthy.
NoUrl(entry) == entry.urlType = "string" /\ entry.url = << >>

RECURSIVE DedupeFrom(_, _)
\* Lines 303-309 on the first of the entries, key its url in lower case.
DedupeKeyed(entries, seen, key) ==
  IF key \in seen THEN DedupeFrom(Tail(entries), seen)
  ELSE KeptBefore(Head(entries), DedupeFrom(Tail(entries), seen \cup {key}))

\* Lines 298-309 from the first of the entries on.  A url that is no string
\* has no toLowerCase method: line 303 throws a TypeError.
DedupeFrom(entries, seen) ==
  IF entries = << >> THEN Kept(<< >>)
  ELSE IF NoUrl(Head(entries)) THEN DedupeFrom(Tail(entries), seen)
  ELSE IF Head(entries).urlType # "string" THEN FilterThrew("TypeError")
  ELSE DedupeKeyed(entries, seen, ToLowerCase(Head(entries).url))

\* Variant of dedupeEntries whose key keeps the letter case of the url.
RECURSIVE DedupeCaseSensitiveFrom(_, _)
DedupeCaseSensitiveFrom(entries, seen) ==
  IF entries = << >> THEN Kept(<< >>)
  ELSE IF NoUrl(Head(entries)) THEN DedupeCaseSensitiveFrom(Tail(entries), seen)
  ELSE IF Head(entries).urlType # "string" THEN FilterThrew("TypeError")
  ELSE IF Head(entries).url \in seen
  THEN DedupeCaseSensitiveFrom(Tail(entries), seen)
  ELSE KeptBefore(Head(entries),
                  DedupeCaseSensitiveFrom(Tail(entries),
                                          seen \cup {Head(entries).url}))

dedupeEntriesCaseSensitive(entries) == DedupeCaseSensitiveFrom(entries, {})

\* [err |-> "none", entries |-> the entries kept], or [err |-> "TypeError"]
\* when it throws.
dedupeEntries(entries) == DedupeFrom(entries, {})

(***************************************************************************)
(* entries.sort, line 32.                                                  *)
(***************************************************************************)
\* Array.prototype.sort is stable: an entry goes after every entry that does
\* not compare greater than it.
InsertSorted(sorted, entry) ==
  LET n == Cardinality({i \in 1..Len(sorted) :
                          ComparedNames[sorted[i].name][entry.name] <= 0})
  IN  SubSeq(sorted, 1, n) \o << entry >> \o SubSeq(sorted, n + 1, Len(sorted))

RECURSIVE SortFrom(_, _)
SortFrom(sorted, rest) ==
  IF rest = << >> THEN sorted
  ELSE SortFrom(InsertSorted(sorted, Head(rest)), Tail(rest))

\* entries.sort((a, b) => a.name.localeCompare(b.name, ...))
SortByName(entries) == SortFrom(<< >>, entries)

(***************************************************************************)
(* renderEntries, buildVideoCard and prettifyLabel.                        *)
(***************************************************************************)
\* label.replace(/[-_]+/g, " "): every run of "-" and "_" becomes one space.
RECURSIVE DashesToSpaces(_)
DashesToSpaces(s) ==
  IF s = << >> THEN << >>
  ELSE IF Head(s) \in {"-", "_"}
  THEN IF Len(s) >= 2 /\ s[2] \in {"-", "_"}
       THEN DashesToSpaces(Tail(s))
       ELSE << " " >> \o DashesToSpaces(Tail(s))
  ELSE << Head(s) >> \o DashesToSpaces(Tail(s))

\* label.replace(/\.[a-z0-9]+$/i, ""): the extension at the end of a label.
StripExtension(label) ==
  IF \E i \in 1..(Len(label) - 1) :
       label[i] = "." /\ \A j \in (i + 1)..Len(label) : IsAlnum(label[j])
  THEN SubSeq(label, 1, (CHOOSE i \in 1..(Len(label) - 1) :
                           label[i] = "." /\ \A j \in (i + 1)..Len(label) : IsAlnum(label[j])) - 1)
  ELSE label

\* Lines 250-253 once decodeURIComponent settled: decoded is what it
\* returned.
PrettifyDecoded(decoded) ==
  IF decoded.ok
  THEN Returned(Trim(StripExtension(DashesToSpaces(decoded.v))))
  ELSE URIError

\* Returned(the label), or URIError when decodeURIComponent throws.
prettifyLabel(label) == PrettifyDecoded(DecodeURIComponent(label))

\* isNSFW on a string.
isNSFW(value) == NSFW_PATTERN(value)

\* entry.name || nameFromPath(entry.url)
NameOrBasename(entry) ==
  IF entry.name # << >> THEN entry.name ELSE nameFromPath(entry.url)

Card(label, entry) ==
  [label |-> label, url |-> entry.url, download |-> NameOrBasename(entry),
   poster |-> IF Truthy(entry.poster) THEN entry.poster ELSE Undefined,
   concealed |-> isNSFW(entry.name) \/ isNSFW(entry.url)]

\* Lines 165-201 once prettifyLabel settled: label is what it returned.
LabelledCard(entry, label) ==
  IF label.ok
  THEN [ok |-> TRUE, card |-> Card(label.v, entry)]
  ELSE [ok |-> FALSE, card |-> Card(<< >>, entry)]

\* [ok |-> TRUE, card], or [ok |-> FALSE] when prettifyLabel throws.
buildVideoCard(entry) == LabelledCard(entry, prettifyLabel(NameOrBasename(entry)))

\* The cards of the entries the inputs give; an entry whose url is no
\* string does not get as far as buildVideoCard.
CardTable ==
  [e \in { p \in PoolEntries : p.urlType = "string" } |-> buildVideoCard(e)]

\* Lines 41-49 once every buildVideoCard settled: [err, cards], err "none"
\* when every card was built and appended, else the exception, the list
\* being empty by then (line 41).
AppendCards(built) ==
  IF \E i \in 1..Len(built) : ~built[i].ok
  THEN [err |-> "URIError", cards |-> << >>]
  ELSE [err |-> "none", cards |-> [i \in 1..Len(built) |-> built[i].card]]

renderEntries(entries) ==
  AppendCards([i \in 1..Len(entries) |-> CardTable[entries[i]]])

(***************************************************************************)
(* Errors: the kind tells the message, the stage where it was thrown.      *)
(***************************************************************************)
NoError == [kind |-> "none", stage |-> "none"]

Error(kind, stage) == [kind |-> kind, stage |-> stage]

(***************************************************************************)
(* The pipeline.                                                           *)
(***************************************************************************)
\* displayStatus(message, false)
StatusInfo(text) == [hidden |-> FALSE, text |-> text, isError |-> FALSE]

StatusLoading == StatusInfo("Loading")

StatusHidden == [hidden |-> TRUE, text |-> "", isError |-> FALSE]

\* displayStatus(message, true)
StatusError(text) == [hidden |-> FALSE, text |-> text, isError |-> TRUE]

PathIdle ==
  /\ rpc = "idle"
  /\ rawPath = << >>
  /\ resolved1 = << >>
  /\ resolved2 = << >>

Init ==
  /\ pc = "start"
  /\ manifestFetches = 0
  /\ dirFetches = 0
  /\ payload = NoPayload
  /\ hrefs = << >>
  /\ manifestResult = "notRun"
  /\ manifestError = NoError
  /\ dirResult = "notRun"
  /\ discovered = << >>
  /\ thrown = NoError
  /\ rendered = << >>
  /\ cards = << >>
  /\ status = StatusHidden
  /\ copies = 0
  /\ PathIdle

\* loadVideos up to the first await: displayStatus, discoverVideoEntries,
\* fetchManifest, fetch(manifestPath).
LoadVideos ==
  /\ pc = "start"
  /\ status' = StatusLoading
  /\ manifestFetches' = manifestFetches + 1
  /\ manifestResult' = "pending"
  /\ pc' = "manifestFetch"
  /\ UNCHANGED << dirFetches, payload, hrefs, manifestError, dirResult,
                  discovered, thrown, rendered >>
  /\ UNCHANGED pageVars
  /\ UNCHANGED pathVars

\* The catch of lines 58-60 followed by line 62 up to fetch(videosDirectory).
FallBack(result, error) ==
  /\ manifestResult' = result
  /\ manifestError' = error
  /\ dirFetches' = dirFetches + 1
  /\ dirResult' = "pending"
  /\ pc' = "dirFetch"

\* fetch(manifestPath) settles: lines 66-78.
ManifestFetchSettles ==
  /\ pc = "manifestFetch"
  /\ \E r \in FetchOutcomes :
       IF r.rejected
       THEN FallBack("threw", Error("NetworkError", "manifest"))
       ELSE IF r.status = 404
       THEN FallBack("threw", Error("ManifestNotFound", "manifest"))
       ELSE IF ~ResponseOk(r)
       THEN FallBack("threw", Error("ManifestStatus", "manifest"))
       ELSE /\ pc' = "manifestJson"
            /\ UNCHANGED << manifestResult, manifestError, dirFetches, dirResult >>
  /\ UNCHANGED << manifestFetches, payload, hrefs, discovered, thrown,
                  rendered, status >>
  /\ UNCHANGED pageVars
  /\ UNCHANGED pathVars

\* Variant of ManifestSettled that does not return the manifest entries but
\* goes on to the directory listing.
ManifestSettledNoReturn(got) ==
  IF got.err # "none"
  THEN /\ FallBack("threw", Error(got.err, "manifest"))
       /\ UNCHANGED discovered
  ELSE IF got.entries # << >>
  THEN /\ manifestResult' = "entries"
       /\ discovered' = got.entries
       /\ dirFetches' = dirFetches + 1
       /\ dirResult' = "pending"
       /\ pc' = "dirFetch"
       /\ UNCHANGED manifestError
  ELSE /\ FallBack("empty", NoError)
       /\ UNCHANGED discovered

\* discoverVideoEntries once fetchManifest settled with got: lines 55-62.
ManifestSettled(got) ==
  IF got.err # "none"
  THEN /\ FallBack("threw", Error(got.err, "manifest"))
       /\ UNCHANGED discovered
  ELSE IF got.entries # << >>
  THEN /\ manifestResult' = "entries"
       /\ discovered' = got.entries
       /\ pc' = "returned"
       /\ UNCHANGED << manifestError, dirFetches, dirResult >>
  ELSE /\ FallBack("empty", NoError)
       /\ UNCHANGED discovered

\* response.json() settles: lines 78-88, then lines 55-62.
ManifestJsonSettles ==
  /\ pc = "manifestJson"
  /\ \E body \in Payloads :
       /\ payload' = body
       /\ ManifestSettled(ManifestEntries(body))
  /\ UNCHANGED << manifestFetches, hrefs, thrown, rendered, status >>
  /\ UNCHANGED pageVars
  /\ UNCHANGED pathVars

\* scrapeDirectoryListing throws the error of the given kind.
ListingThrows(kind) ==
  /\ thrown' = Error(kind, "directory")
  /\ dirResult' = "threw"
  /\ pc' = "threw"

\* fetch(videosDirectory) settles: lines 92-100.
DirFetchSettles ==
  /\ pc = "dirFetch"
  /\ \E r \in FetchOutcomes :
       IF r.rejected \/ ~ResponseOk(r)
       THEN ListingThrows(IF r.rejected THEN "NetworkError" ELSE "ListingStatus")
       ELSE /\ pc' = "dirText"
            /\ UNCHANGED << thrown, dirResult >>
  /\ UNCHANGED << manifestFetches, dirFetches, payload, hrefs, manifestResult,
                  manifestError, discovered, rendered, status >>
  /\ UNCHANGED pageVars
  /\ UNCHANGED pathVars

\* scrapeDirectoryListing once the anchors are mapped to got: lines 112-120.
ListingSettled(got) ==
  IF got.err # "none" \/ got.entries = << >>
  THEN /\ ListingThrows(IF got.err # "none" THEN got.err ELSE "NoMp4Found")
       /\ UNCHANGED discovered
  ELSE /\ discovered' = got.entries
       /\ dirResult' = "entries"
       /\ pc' = "returned"
       /\ UNCHANGED thrown

\* response.text() settles: it rejects when the body cannot be read, else
\* lines 100-120 run on the anchors of the document.
DirTextSettles ==
  /\ pc = "dirText"
  /\ \/ /\ ListingThrows("NetworkError")
        /\ UNCHANGED << hrefs, discovered >>
     \/ \E anchors \in Listings(payload.records) :
          /\ hrefs' = anchors
          /\ ListingSettled(ScrapeEntries(anchors))
  /\ UNCHANGED << manifestFetches, dirFetches, payload, manifestResult,
                  manifestError, rendered, status >>
  /\ UNCHANGED pageVars
  /\ UNCHANGED pathVars

\* Lines 33-36 once renderEntries settled: the cards on the page, then
\* hideStatus, or the message of the exception.
ShowCards(result) ==
  /\ cards' = result.cards
  /\ status' = IF result.err # "none" THEN StatusError(result.err) ELSE StatusHidden

\* loadVideos once the discovered list is deduplicated, lines 24-36: the
\* nothing-found message, or sort and renderEntries, then hideStatus or,
\* when a card could not be built, the catch of line 35.
Present(entries) ==
  IF entries = << >>
  THEN /\ status' = StatusError("NothingFound")
       /\ UNCHANGED << rendered, cards >>
  ELSE /\ rendered' = SortByName(entries)
       /\ ShowCards(renderEntries(rendered'))

\* Lines 22-36 once dedupeEntries settled: with its entries, or with the
\* exception the catch of line 35 reports.
Deduplicated(result) ==
  IF result.err # "none"
  THEN /\ status' = StatusError(result.err)
       /\ UNCHANGED << rendered, cards >>
  ELSE Present(result.entries)

\* loadVideos after discoverVideoEntries returned: lines 22-36.
LoadVideosRender ==
  /\ pc = "returned"
  /\ Deduplicated(dedupeEntries(discovered))
  /\ pc' = "done"
  /\ UNCHANGED << manifestFetches, dirFetches, payload, hrefs, manifestResult,
                  manifestError, dirResult, discovered, thrown, copies >>
  /\ UNCHANGED pathVars

\* loadVideos after discoverVideoEntries threw: lines 35-37.
LoadVideosCatch ==
  /\ pc = "threw"
  /\ status' = StatusError(thrown.kind)
  /\ pc' = "done"
  /\ UNCHANGED << manifestFetches, dirFetches, payload, hrefs, manifestResult,
                  manifestError, dirResult, discovered, thrown, rendered,
                  cards, copies >>
  /\ UNCHANGED pathVars

(***************************************************************************)
(* The handlers of the cards.                                              *)
(***************************************************************************)
\* What the handlers of a card leave alone.
discoveryVars ==
  << pc, manifestFetches, dirFetches, payload, hrefs, manifestResult,
     manifestError, dirResult, discovered, thrown, rendered >>

\* A click on the Copy Link button of a card that shows its actions:
\* handleCopy up to its await.  new URL(url, document.baseURI) throws when
\* the url cannot be parsed against the base of the document.
\* clipboard: whether navigator.clipboard exists at the click.
CopyClicked ==
  /\ \E i \in 1..Len(cards) : ~cards[i].concealed
  /\ \E clipboard \in BOOLEAN :
       IF ~clipboard
       THEN /\ status' = StatusError("ClipboardUnavailable")
            /\ UNCHANGED copies
       ELSE \/ /\ status' = StatusError("CopyFailed")
               /\ UNCHANGED copies
            \/ /\ copies < MaxCopies
               /\ copies' = copies + 1
               /\ UNCHANGED status
  /\ UNCHANGED cards
  /\ UNCHANGED discoveryVars
  /\ UNCHANGED pathVars

\* navigator.clipboard.writeText settles: lines 213-217.
CopySettles ==
  /\ copies > 0
  /\ copies' = copies - 1
  /\ \E written \in BOOLEAN :
       status' = IF written THEN StatusInfo("LinkCopied") ELSE StatusError("CopyFailed")
  /\ UNCHANGED cards
  /\ UNCHANGED discoveryVars
  /\ UNCHANGED pathVars

\* A click on the title of a card behind the warning: lines 191-197.
TitleClicked ==
  /\ \E i \in 1..Len(cards) :
       /\ cards[i].concealed
       /\ cards' = [cards EXCEPT ![i].concealed = FALSE]
  /\ UNCHANGED << status, copies >>
  /\ UNCHANGED discoveryVars
  /\ UNCHANGED pathVars

Next ==
  \/ LoadVideos
  \/ ManifestFetchSettles
  \/ ManifestJsonSettles
  \/ DirFetchSettles
  \/ DirTextSettles
  \/ LoadVideosRender
  \/ LoadVideosCatch
  \/ CopyClicked
  \/ CopySettles
  \/ TitleClicked

Spec == Init /\ [][Next]_vars

(***************************************************************************)
(* resolveVideoPath applied to its own result.                             *)
(***************************************************************************)
PipelineIdle ==
  /\ pc = "idle"
  /\ manifestFetches = 0
  /\ dirFetches = 0
  /\ payload = NoPayload
  /\ hrefs = << >>
  /\ manifestResult = "notRun"
  /\ manifestError = NoError
  /\ dirResult = "notRun"
  /\ discovered = << >>
  /\ thrown = NoError
  /\ rendered = << >>
  /\ cards = << >>
  /\ status = StatusHidden
  /\ copies = 0

PathInit ==
  /\ PipelineIdle
  /\ rpc = "start"
  /\ rawPath \in PathInputs
  /\ resolved1 = << >>
  /\ resolved2 = << >>

\* resolveVideoPath(rawPath) ended with got.
ResolvedOnce(got) ==
  IF got.ok
  THEN /\ resolved1' = got.v
       /\ rpc' = "once"
  ELSE /\ rpc' = "threw"
       /\ UNCHANGED resolved1

ResolveOnce ==
  /\ rpc = "start"
  /\ ResolvedOnce(resolveVideoPath(rawPath))
  /\ UNCHANGED << rawPath, resolved2 >>
  /\ UNCHANGED pipelineVars

\* resolveVideoPath on the result of resolveVideoPath ended with got.
ResolvedTwice(got) ==
  IF got.ok
  THEN /\ resolved2' = got.v
       /\ rpc' = "twice"
  ELSE /\ rpc' = "threwTwice"
       /\ UNCHANGED resolved2

ResolveTwice ==
  /\ rpc = "once"
  /\ ResolvedTwice(resolveVideoPath(resolved1))
  /\ UNCHANGED << rawPath, resolved1 >>
  /\ UNCHANGED pipelineVars

PathNext == ResolveOnce \/ ResolveTwice

PathSpec == PathInit /\ [][PathNext]_vars

(***************************************************************************)
(* Properties.                                                             *)
(***************************************************************************)
Range(seq) == { seq[i] : i \in 1..Len(seq) }

Occurrences(seq, e) == Cardinality({ i \in 1..Len(seq) : seq[i] = e })

\* a and b hold the same entries, each as often.
SameEntries(a, b) ==
  /\ Len(a) = Len(b)
  /\ \A e \in Range(a) \cup Range(b) : Occurrences(a, e) = Occurrences(b, e)

\* c and d are one character, or the two cases of one letter: of a letter
\* of A-Z, a capital being 32 code units below its small letter, or of the
\* A with macron (U+0100, U+0101), the one letter beyond ASCII in the urls
\* explored.
SameLetter(c, d) ==
  \/ c = d
  \/ CodeOf(c) \in 65..90 /\ CodeOf(d) = CodeOf(c) + 32
  \/ CodeOf(d) \in 65..90 /\ CodeOf(c) = CodeOf(d) + 32
  \/ {c, d} = {"<0100>", "<0101>"}

\* The texts a and b are equal letter case aside.
SameText(a, b) ==
  /\ Len(a) = Len(b)
  /\ \A i \in 1..Len(a) : SameLetter(a[i], b[i])

\* The urls of the entries a and b are equal letter case aside.
SameUrl(a, b) == SameText(a.url, b.url)

\* The entries of seq whose url no earlier entry has, letter case aside, in
\* their order.
RECURSIVE FirstOccurrencesFrom(_, _)
FirstOccurrencesFrom(seq, i) ==
  IF i > Len(seq) THEN << >>
  ELSE IF \E j \in 1..(i - 1) : SameUrl(seq[j], seq[i])
  THEN FirstOccurrencesFrom(seq, i + 1)
  ELSE << seq[i] >> \o FirstOccurrencesFrom(seq, i + 1)

FirstOccurrences(seq) == FirstOccurrencesFrom(seq, 1)

\* The text of url before its query string.
PathOf(url) ==
  IF \E i \in 1..Len(url) : url[i] = "?"
  THEN SubSeq(url, 1, (CHOOSE i \in 1..Len(url) :
                         url[i] = "?" /\ \A j \in 1..(i - 1) : url[j] # "?") - 1)
  ELSE url

\* The text after the last slash of the path of url.
FinalSegment(url) ==
  IF \E i \in 1..Len(PathOf(url)) : PathOf(url)[i] = "/"
  THEN Drop(PathOf(url), CHOOSE i \in 1..Len(PathOf(url)) :
                           /\ PathOf(url)[i] = "/"
                           /\ \A j \in (i + 1)..Len(PathOf(url)) : PathOf(url)[j] # "/")
  ELSE PathOf(url)

\* A raw record without an explicit label: a string, or an object without
\* name, file and title.
NoLabel(r) ==
  \/ r.t = "string"
  \/ /\ r.t = "object"
     /\ r.name.t \in {"undefined", "null"}
     /\ r.file.t \in {"undefined", "null"}
     /\ r.title.t \in {"undefined", "null"}

ManifestParsed == payload.shape \in {"array", "files"}

Names(entries) == [i \in 1..Len(entries) |-> entries[i].name]

Urls(entries) == [i \in 1..Len(entries) |-> entries[i].url]

\* loadVideos ended having handed a list to renderEntries.
Handed == pc = "done" /\ rendered # << >>

\* C1: the directory listing is fetched if and only if the manifest stage
\* has finished by failing or by yielding no entry; it is never fetched when
\* the manifest yielded an entry; each source is fetched at most once.
C1_ListingFetchedIffManifestUnusable ==
  /\ manifestFetches <= 1
  /\ dirFetches <= 1
  /\ (dirFetches = 1 <=> manifestResult \in {"threw", "empty"})
  /\ (manifestResult = "entries" => dirFetches = 0)
  /\ (manifestResult = "threw" <=> manifestError # NoError)

\* C1 witness: an empty manifest made discovery fetch the listing, once.
C1_Witness ==
  /\ pc = "done"
  /\ manifestResult = "empty"
  /\ payload = [shape |-> "array", records |-> << >>]
  /\ manifestFetches = 1
  /\ dirFetches = 1
  /\ dirResult = "entries"

\* C2: no error of the manifest stage reaches the caller of discovery, every
\* failed manifest leads to the directory listing, and discovery fails only
\* when the directory listing cannot be fetched (the fetch fails or answers
\* a non-success status) or holds no candidate link, with that error.
C2_OnlyListingFailuresSurface ==
  /\ thrown.stage # "manifest"
  /\ (manifestResult = "threw" => dirFetches = 1)
  /\ (thrown # NoError =>
        /\ thrown.stage = "directory"
        /\ thrown.kind \in {"NetworkError", "ListingStatus", "NoMp4Found"})

\* C3: normalizeEntry throws on no record, and a manifest is never lost to
\* one malformed record.
C3_NormalizeNeverThrows ==
  ManifestParsed =>
    /\ \A i \in 1..Len(payload.records) :
         NormalizedRecord[payload.records[i]].k \in {"entry", "null"}
    /\ manifestResult # "threw"

\* The hrefs C4 excludes: empty or starting with "../" once the query string
\* is dropped, or not ending in .mp4.
ExcludedHref(href) ==
  \/ PathOf(href) = << >>
  \/ StartsWith(PathOf(href), << ".", ".", "/" >>)
  \/ ~EndsWith(ToLowerCase(FinalSegment(href)), << ".", "m", "p", "4" >>)

\* C4: an href that is empty, starts with "../" or does not end in .mp4
\* produces no entry.
C4_ExcludedHrefsYieldNoEntry ==
  \A i \in 1..Len(hrefs) :
    ExcludedHref(hrefs[i]) => ScrapedHref[hrefs[i]].k # "entry"

\* The listing a.mp4, A.MP4, b.mp4, whose first two files differ by letter
\* case only.
CaseListing == << AMp4, AUpperMp4, BMp4 >>

\* The manifest of two urls that differ by the case of A with macron.
MacronManifest == << RawString(HttpUpperMp4), RawString(HttpLowerMp4) >>

\* C5: deduplication keeps exactly the first entry of every set of entries
\* whose urls are equal letter case aside, in the original order, and the
\* rendered list holds no two entries with such urls; of the listing
\* a.mp4, A.MP4, b.mp4 the first and the third entry are rendered, of two
\* urls that differ by the case of a letter beyond ASCII the first.
C5_DedupKeepsFirstOccurrences ==
  /\ pc \in {"returned", "done"} =>
       LET deduped == dedupeEntries(discovered)
           firsts == FirstOccurrences(discovered)
       IN  /\ deduped.err = "none" => deduped.entries = firsts
           /\ rendered # << >> =>
                /\ SameEntries(rendered, firsts)
                /\ \A i, j \in 1..Len(rendered) :
                     SameUrl(rendered[i], rendered[j]) => i = j
  /\ (pc = "done" /\ hrefs = CaseListing) =>
       /\ Urls(discovered) = << videosDirectory \o AMp4, videosDirectory \o AUpperMp4,
                                videosDirectory \o BMp4 >>
       /\ rendered = << discovered[1], discovered[3] >>
  /\ (pc = "done" /\ payload.records = MacronManifest) =>
       /\ Urls(discovered) = << HttpUpperMp4, HttpLowerMp4 >>
       /\ rendered = << discovered[1] >>

\* C5 witness: of the listing a.mp4, A.MP4, b.mp4 the entries of a.mp4 and
\* b.mp4 are rendered, the entry of A.MP4 is dropped.
C5_Witness ==
  /\ pc = "done"
  /\ hrefs = CaseListing
  /\ Len(discovered) = 3
  /\ discovered[1].url # discovered[2].url
  /\ SameUrl(discovered[1], discovered[2])
  /\ Urls(rendered) = << videosDirectory \o AMp4, videosDirectory \o BMp4 >>
  /\ Len(cards) = 2

\* C6: resolveVideoPath applied to its own result returns that result.
C6_ResolveIdempotent ==
  /\ rpc # "threwTwice"
  /\ rpc = "twice" => resolved2 = resolved1

\* C6 witness: "./%" resolves to "videos/%25", and that to itself.
C6_Witness ==
  /\ rpc = "twice"
  /\ rawPath = << ".", "/", "%" >>
  /\ resolved1 = videosDirectory \o << "%", "2", "5" >>
  /\ resolved2 = resolved1

\* C7: every entry discovery returns, and every entry rendered, has a
\* non-empty name.
C7_NamesNonEmpty ==
  /\ \A i \in 1..Len(discovered) : discovered[i].name # << >>
  /\ \A i \in 1..Len(rendered) : rendered[i].name # << >>

ClipOne == << "c", "l", "i", "p", " ", "o", "n", "e" >>

\* The manifest ["clip one.mp4", {name: "clip2", url: "videos/clip2.mp4",
\* poster: "p.jpg"}].
ScenarioA ==
  << RawString(ClipOneMp4),
     RawObject(Str(Clip2), Undefined, Undefined, Str(VideosClip2Mp4), Str(PJpg), Undefined) >>

\* C8: the name of an entry made from a record without a label is the final
\* segment of its url, decoded, without its extension; the manifest
\* ["clip one.mp4", {name: "clip2", url: "videos/clip2.mp4", poster:
\* "p.jpg"}] yields the names "clip one" and "clip2".
C8_NameWithoutExtension ==
  /\ ManifestParsed =>
       \A i \in 1..Len(payload.records) :
         (/\ NoLabel(payload.records[i])
          /\ NormalizedRecord[payload.records[i]].k = "entry") =>
           /\ DecodeURIComponent(FinalSegment(NormalizedRecord[payload.records[i]].url)).ok
           /\ NormalizedRecord[payload.records[i]].name =
                StripExtension(
                  DecodeURIComponent(FinalSegment(NormalizedRecord[payload.records[i]].url)).v)
  /\ (pc = "returned" /\ payload.records = ScenarioA) =>
       Names(discovered) = << ClipOne, Clip2 >>

\* The entry named later is not rendered before the entry named earlier.
InOrder(earlier, later) ==
  \A i, j \in 1..Len(rendered) :
    (rendered[i].name = earlier /\ rendered[j].name = later) => i < j

\* The names of the entries explored in ascending order, written out: the
\* names of one set differ by letter case or accents only and compare equal;
\* a run of digits counts as one number (video2 before video10), a space
\* comes before a digit and a digit before a letter.
NameClasses ==
  << { << >> },
     { << "a", ".", "m", "p", "4" >>,
       << "A", ".", "m", "p", "4" >>,
       << "A", ".", "M", "P", "4" >>,
       << "<0100>", ".", "m", "p", "4" >>,
       << "<0101>", ".", "m", "p", "4" >> },
     { << "b", ".", "m", "p", "4" >> },
     { << "c", "l", "i", "p", " ", "o", "n", "e", ".", "m", "p", "4" >> },
     { << "c", "l", "i", "p", "2" >> },
     { << "u", "p", ".", "m", "p", "4" >> },
     { << "v", "i", "d", "e", "o", "1" >> },
     { << "v", "i", "d", "e", "o", "2" >> },
     { << "v", "i", "d", "e", "o", "1", "0" >> },
     { << "x" >> } >>

\* Place of a name in the order of the names.
NameRank(name) == CHOOSE i \in 1..Len(NameClasses) : name \in NameClasses[i]

\* The manifest of the names video2, video10, video1.
VideoManifest ==
  << NamedRecord(Video2, V2Mp4), NamedRecord(Video10, V10Mp4),
     TitledRecord(Video1, V1Mp4, TPng) >>

\* C9: the rendered list is ordered by name, digits by their number and
\* letter case aside: no entry compares greater than the next one, under
\* the comparator and in the order of the names written out; the names
\* video2, video10, video1 come out as video1, video2, video10; names that
\* differ by letter case only compare equal and keep their order; the
\* rendered list holds exactly the deduplicated entries.
C9_RenderedSortedByName ==
  /\ Handed =>
       /\ \A i \in 1..(Len(rendered) - 1) :
            /\ ComparedNames[rendered[i].name][rendered[i + 1].name] <= 0
            /\ NameRank(rendered[i].name) <= NameRank(rendered[i + 1].name)
       /\ \A i, j \in 1..Len(rendered) :
            ComparedNames[rendered[i].name][rendered[j].name] < 0
              <=> NameRank(rendered[i].name) < NameRank(rendered[j].name)
       /\ InOrder(Video1, Video2)
       /\ InOrder(Video2, Video10)
       /\ InOrder(Video1, Video10)
       /\ SameEntries(rendered, dedupeEntries(discovered).entries)
  /\ (pc = "done" /\ payload.records = VideoManifest) =>
       Names(rendered) = << Video1, Video2, Video10 >>
  /\ (pc = "done" /\ hrefs = << BMp4, AMp4, NsfwAMp4 >>) =>
       Names(rendered) = << AMp4, ACapitalMp4, BMp4 >>
  /\ (pc = "done" /\ hrefs = << NsfwAMp4, AMp4 >>) =>
       Names(rendered) = << ACapitalMp4, AMp4 >>

\* C9 witness: the manifest of the names video2, video10, video1 is rendered
\* as video1, video2, video10.
C9_Witness ==
  /\ pc = "done"
  /\ payload.records = VideoManifest
  /\ Names(discovered) = << Video2, Video10, Video1 >>
  /\ Names(rendered) = << Video1, Video2, Video10 >>
  /\ Len(cards) = 3

\* C10: when discovery returns, the deduplicated list is not empty: every
\* returned entry has a url, deduplication keeps the first entry, the
\* nothing-found message is never shown, and an outcome without entries is
\* reported as a failure of the directory listing.
C10_NothingFoundUnreachable ==
  /\ status.text # "NothingFound"
  /\ pc = "returned" =>
       /\ discovered # << >>
       /\ \A i \in 1..Len(discovered) : discovered[i].url # << >>
       /\ dedupeEntries(discovered).err = "none"
       /\ dedupeEntries(discovered).entries # << >>
  /\ (pc = "done" /\ rendered = << >>) =>
       /\ thrown.stage = "directory"
       /\ status = StatusError(thrown.kind)

====
